---------------------------- MODULE Spec2Model ----------------------------
(***************************************************************************)
(* A model of the Fledge core: the OMF linked-data emitter                 *)
(* (C/plugins/north/OMF/linkdata.cpp), the PostgreSQL storage connection   *)
(* (appendReadings, formatDate, purgeReadings), the south ingest queue     *)
(* (C/services/south/include/ingest.h) and the LazyJSON scanner            *)
(* (C/common/lazyjson.cpp).  Each subsystem has its own variables, its own *)
(* initial predicate and next-state relation, and its own specification;   *)
(* the variables of the other subsystems are held at their idle values.    *)
(***************************************************************************)
EXTENDS Integers, Sequences, FiniteSets, TLC

VARIABLES
    \* ---- OMF linked-data emitter (OMFLinkedData) ----
    m_assetSent,        \* set of asset names whose FledgeAsset record was emitted
    m_containerSent,    \* map link name -> base type ("" when unsupported)
    m_linkSent,         \* set of link names whose __Link record was emitted
    m_containers,       \* pending container definitions (the string, as tokens)
    outData,            \* the fragment processReading is building / last returned
    omf_pc,             \* "idle", or "loop" inside processReading's datapoint loop
    assetName,          \* processReading's local: asset name after the hints
    needDelim,          \* processReading's local
    dpCount,            \* datapoints of the current reading iterated so far
    omfCalls,           \* processReading calls started
    containerDefs,      \* history: link -> container definitions appended so far
    linkRecs,           \* history: link -> __Link records emitted so far
    posted,             \* payload of the last POST issued by flushContainers
    flushRet,           \* return value of the last flushContainers ("none" before)
    lastKind,           \* history: what the last loop iteration was given:
                        \* "unsupported" type, a "repeat" of an asset and
                        \* datapoint handled before, or "other"
    namesSeen,          \* history: asset names earlier processReading calls had
    processed,          \* history: << asset, datapoint >> pairs with a supported
                        \* type that earlier loop iterations handled
    pendingDefs,        \* history: container definitions built since the last flush
    lastFlush,          \* history: what the flushContainers call that just
                        \* returned was given
    \* ---- storage connection: the readings table and purgeReadings ----
    readingsTable,      \* rows [id, user_ts]; user_ts in seconds before now()
    nextRowId,          \* the id the next inserted row gets (bigserial)
    lastPurge,          \* the purgeReadings call that just returned, or NoPurge
    lastError,          \* ConnectionManager's error, set by raiseError
    \* ---- south ingest queue (Ingest) ----
    m_queue,            \* new data: queued (producer-facing buffer)
    m_data,             \* data ready to be filtered/sent (drain-owned buffer)
    m_running,          \* the running flag
    m_queueSizeThreshold,
    m_discardedReadings,
    drain_pc,           \* position of the drain thread
    accepted,           \* history: number of readings ingest() has queued
    handed,             \* history: readings passed to storage appendReadings, in order
    filteredOut,        \* history: ids of readings the filter pipeline discarded
    shutdownCalled,     \* history: shutdown() has been called
    queuedAfterShutdown, \* history: readings queued by ingest() after shutdown()
    \* ---- storage connection: formatDate and appendReadings ----
    fd_parts,           \* the pieces the timestamp given to formatDate is made of
    fd_input,           \* the timestamp string given to formatDate
    fd_first,           \* outcome of formatDate(fd_input)
    fd_second,          \* outcome of formatDate applied to the text of fd_first
    lastAppend,         \* the appendReadings call that just returned, or NoAppend
    \* ---- LazyJSON ----
    m_str,              \* the JSON document, a sequence of characters
    m_stateStack,       \* stack of LazyJSONState frames, top last
    m_state,            \* the frame the parser works in
    lastAttribute,      \* the getAttribute call that just returned
    json_src,           \* history: the members the document was written from
    json_frame,         \* history: 0 in the document's frame, i in the object of
                        \* member i, -1 in an array
    lastElement,        \* the getArray or nextArrayElement call that just returned
    lastSize,           \* the getArraySize call that just returned
    json_walk,          \* history: cursors returned by getArray and the
                        \* nextArrayElement calls that followed it
    lastCursor,         \* history: the last cursor returned and the frame it was
                        \* resolved in
    \* ---- storage connection: deleteRows and update on a common table ----
    commonTable,        \* the rows of the table, by their column c
    lastCall,           \* the deleteRows or update call that just returned, or NoCall
    \* ---- storage connection: Connection::Connection() ----
    connectErrorTime,   \* the static connectErrorTime
    clock,              \* what time(0) returns
    conn_pc,            \* position inside the constructor: "idle", "log", "stamp"
    logged,             \* history: clock readings at which the failure was logged
    failedBefore,       \* history: "true" once a connection attempt has failed
    lastAttempt,        \* history: how the last attempt ended: "connected",
                        \* "logged" or "suppressed"
    \* ---- storage connection: compilation of a query payload ----
    query,              \* the payload handed to the connection, or NoQuery
    compiled,           \* what was written to the SQL buffer, or NotCompiled
    \* ---- LazyJSON: rawObject ----
    lastRaw             \* the rawObject call that just returned, or NoRaw

omfVars == << m_assetSent, m_containerSent, m_linkSent, m_containers, outData,
              omf_pc, assetName, needDelim, dpCount, omfCalls, containerDefs,
              linkRecs, posted, flushRet, lastKind, namesSeen, processed,
              pendingDefs, lastFlush >>

purgeVars == << readingsTable, nextRowId, lastPurge, lastError >>

ingestVars == << m_queue, m_data, m_running, m_queueSizeThreshold,
                 m_discardedReadings, drain_pc, accepted, handed, filteredOut,
                 shutdownCalled, queuedAfterShutdown >>

formatVars == << fd_parts, fd_input, fd_first, fd_second, lastAppend >>

jsonVars == << m_str, m_stateStack, m_state, lastAttribute, json_src, json_frame,
              lastElement, lastSize, json_walk, lastCursor >>

commonVars == << commonTable, lastCall >>

connVars == << connectErrorTime, clock, conn_pc, logged, failedBefore, lastAttempt >>

storeVars == << commonVars, connVars >>

queryVars == << query, compiled >>

rawVars == << lastRaw >>

vars == << omfVars, purgeVars, ingestVars, formatVars, jsonVars, storeVars,
           queryVars, rawVars >>

\* what the actions of one subsystem leave alone
notOMF    == << purgeVars, ingestVars, formatVars, jsonVars, storeVars,
               queryVars, rawVars >>
notPurge  == << omfVars, ingestVars, formatVars, jsonVars, storeVars,
               queryVars, rawVars >>
notIngest == << omfVars, purgeVars, formatVars, jsonVars, storeVars,
               queryVars, rawVars >>
notJSON   == << omfVars, purgeVars, ingestVars, formatVars, storeVars,
               queryVars, rawVars >>
notStore  == << omfVars, ingestVars, formatVars, jsonVars, queryVars, rawVars >>
notQuery  == << omfVars, purgeVars, ingestVars, formatVars, jsonVars, storeVars,
               rawVars >>

----------------------------------------------------------------------------
(* Small helpers on sequences.                                              *)

RECURSIVE SeqsUpTo(_, _)
\* all sequences over S of length at most n
SeqsUpTo(S, n) ==
    IF n = 0 THEN { << >> }
    ELSE LET shorter == SeqsUpTo(S, n - 1)
         IN  shorter \cup { Append(s, x) : s \in { t \in shorter : Len(t) = n - 1 }, x \in S }

----------------------------------------------------------------------------
(*                    OMF linked-data emitter                               *)

\* bounds of the emitter model
MaxReadings   == 3      \* processReading calls per behaviour
MaxDatapoints == 2      \* datapoints per reading

OMF_HINT == "OMFHint"

AssetNames == { "a", "a_b" }
DpNames    == { "c", "b_c", OMF_HINT }
DpTypes    == { "T_STRING", "T_INTEGER", "T_FLOAT", "T_DP_DICT" }
Datapoints == [ name : DpNames, type : DpTypes ]

\* the hint lists a reading may carry (<< >> also stands for hints == NULL)
HintLists ==
    { << >>,
      << << "OMFTagNameHint", "a_b" >> >>,
      << << "OMFTagHint", "a" >> >>,
      << << "OMFNumberHint", "float32" >> >>,
      << << "OMFTagNameHint", "a_b" >>, << "OMFTagHint", "a" >> >> }

\* every asset name processReading can end up with, and every link name
EffectiveAssets == AssetNames \cup { "a", "a_b" }
LinkName(asset, dpName) == asset \o "_" \o dpName
Links == { LinkName(a, d) : a \in EffectiveAssets, d \in DpNames }

Comma == << "," >>
AssetRecord(a)        == << "FledgeAsset", a >>
LinkRecord(a, link)   == << "__Link", a, link >>
ValueRecord(link, bt) == << "value", link, bt >>
ContainerDef(link, bt, name) == << "container", link, bt, name >>

\* HTTP outcomes of sender.sendRequest: a status code or a raised exception
HttpOutcomes ==
    { << "status", c >> : c \in { 199, 200, 299, 300, 404 } }
        \cup { << "BadRequest" >>, << "exception" >> }

\* the value types the emitter handles
SupportedTypes == { "T_STRING", "T_INTEGER", "T_FLOAT" }

\* a test that lets every type through
isTypeSupported_all(type) == TRUE

\* isTypeSupported(): datapoint types the OMF emitter accepts
isTypeSupported(type) == type \in { "T_STRING", "T_INTEGER", "T_FLOAT" }

RECURSIVE applyHints(_, _, _)
\* the hint loop of processReading: a TagName or Tag hint replaces the name
applyHints(name, hints, i) ==
    IF i > Len(hints) THEN name
    ELSE applyHints(IF hints[i][1] \in { "OMFTagNameHint", "OMFTagHint" }
                    THEN hints[i][2] ELSE name,
                    hints, i + 1)

\* the switch of sendContainer: the base type, "" for an unsupported type
baseTypeOf(type) ==
    CASE type = "T_STRING"  -> "String"
      [] type = "T_INTEGER" -> "Double"
      [] type = "T_FLOAT"   -> "Double"
      [] OTHER              -> ""

\* sendContainer(linkName, dp): the returned base type and the new m_containers
sendContainer(linkName, dp, containers) ==
    LET baseType == baseTypeOf(dp.type)
    IN  IF baseType = ""
        THEN [ baseType |-> baseType, containers |-> containers ]
        ELSE [ baseType   |-> baseType,
               containers |-> (IF containers # << >> THEN Append(containers, Comma)
                                                      ELSE containers)
                              \o << ContainerDef(linkName, baseType, dp.name) >> ]

NoFlush ==
    [ called |-> "false", empty |-> "true", pending |-> << >>,
      outcome |-> << "none" >> ]

\* an asset name that is never found in m_assetSent
assetKnown_never(name) == FALSE

\* m_assetSent->find(assetName) != m_assetSent->end()
assetKnown(name) == name \in m_assetSent

\* processReading up to the datapoint loop
ProcessReadingBegin(asset, hints) ==
    /\ omf_pc = "idle"
    /\ omfCalls < MaxReadings
    /\ LET name == applyHints(asset, hints, 1)
       IN  /\ assetName' = name
           /\ namesSeen' = namesSeen \cup { name }
           /\ IF ~assetKnown(name)
              THEN /\ outData' = << AssetRecord(name) >>
                   /\ needDelim' = TRUE
                   /\ m_assetSent' = m_assetSent \cup { name }
              ELSE /\ outData' = << >>
                   /\ needDelim' = FALSE
                   /\ UNCHANGED m_assetSent
    /\ omf_pc' = "loop"
    /\ dpCount' = 0
    /\ omfCalls' = omfCalls + 1
    /\ lastKind' = "none"
    /\ lastFlush' = NoFlush
    /\ UNCHANGED << m_containerSent, m_linkSent, m_containers, containerDefs,
                    linkRecs, posted, flushRet, processed, pendingDefs, notOMF >>

\* a link whose container is never found in the memo table (mutation of containerKnown)
containerKnown_never(link) == FALSE

\* m_containerSent->find(link) != m_containerSent->end()
containerKnown(link) == link \in DOMAIN m_containerSent

\* the effect of one iteration of the datapoint loop on the emitter's state
datapointStep(dp) ==
    LET st0 == [ outData       |-> outData,
                 needDelim     |-> needDelim,
                 containerSent |-> m_containerSent,
                 linkSent      |-> m_linkSent,
                 containers    |-> m_containers,
                 newContainer  |-> FALSE,
                 newLink       |-> FALSE,
                 link          |-> LinkName(assetName, dp.name) ]
    IN  IF dp.name = OMF_HINT THEN st0
        ELSE IF ~isTypeSupported(dp.type) THEN st0
        ELSE
          LET link  == LinkName(assetName, dp.name)
              out1  == IF needDelim THEN Append(outData, Comma) ELSE outData
              known == containerKnown(link)
              sent  == sendContainer(link, dp, m_containers)
              baseType   == IF known THEN m_containerSent[link] ELSE sent.baseType
              containers == IF known THEN m_containers ELSE sent.containers
              cSent == IF known THEN m_containerSent
                       ELSE [ l \in DOMAIN m_containerSent \cup { link } |->
                                IF l = link THEN baseType ELSE m_containerSent[l] ]
              st1 == [ st0 EXCEPT !.outData = out1, !.needDelim = TRUE,
                                  !.containerSent = cSent, !.containers = containers,
                                  !.newContainer = (containers # m_containers) ]
          IN  IF baseType = "" THEN st1
              ELSE
                LET addLink == link \notin m_linkSent
                    out2 == IF addLink
                            THEN out1 \o << LinkRecord(assetName, link), Comma >>
                            ELSE out1
                IN  [ st1 EXCEPT !.outData  = Append(out2, ValueRecord(link, baseType)),
                                 !.linkSent = IF addLink THEN m_linkSent \cup { link }
                                              ELSE m_linkSent,
                                 !.newLink  = addLink ]

\* one iteration of processReading's loop over the reading's datapoints
ProcessReadingDatapoint(dp) ==
    /\ omf_pc = "loop"
    /\ dpCount < MaxDatapoints
    /\ LET st == datapointStep(dp)
       IN  /\ outData' = st.outData
           /\ needDelim' = st.needDelim
           /\ m_containerSent' = st.containerSent
           /\ m_linkSent' = st.linkSent
           /\ m_containers' = st.containers
           /\ containerDefs' = IF st.newContainer
                               THEN [ containerDefs EXCEPT ![st.link] = @ + 1 ]
                               ELSE containerDefs
           /\ linkRecs' = IF st.newLink
                          THEN [ linkRecs EXCEPT ![st.link] = @ + 1 ]
                          ELSE linkRecs
           /\ pendingDefs' = IF st.newContainer
                             THEN Append(pendingDefs,
                                         st.containers[Len(st.containers)])
                             ELSE pendingDefs
    /\ dpCount' = dpCount + 1
    /\ lastKind' = IF dp.type \notin SupportedTypes THEN "unsupported"
                   ELSE IF dp.name # OMF_HINT /\ << assetName, dp.name >> \in processed
                   THEN "repeat"
                   ELSE "other"
    /\ processed' = IF dp.name # OMF_HINT /\ dp.type \in SupportedTypes
                    THEN processed \cup { << assetName, dp.name >> }
                    ELSE processed
    /\ UNCHANGED << m_assetSent, omf_pc, assetName, omfCalls, posted, flushRet,
                    namesSeen, lastFlush, notOMF >>

\* the end of the loop: processReading returns outData
ProcessReadingReturn ==
    /\ omf_pc = "loop"
    /\ omf_pc' = "idle"
    /\ lastKind' = "none"
    /\ UNCHANGED << m_assetSent, m_containerSent, m_linkSent, m_containers, outData,
                    assetName, needDelim, dpCount, omfCalls, containerDefs,
                    linkRecs, posted, flushRet, namesSeen, processed, pendingDefs,
                    lastFlush, notOMF >>

\* a status test that also takes 300 for a success
httpSuccess_300(res) == res >= 200 /\ res <= 300

\* res >= 200 && res <= 299
httpSuccess(res) == res >= 200 /\ res <= 299

\* the pending buffer left as it was
afterFlush_keep(containers) == containers

\* m_containers = ""
afterFlush(containers) == << >>

\* flushContainers(sender, path, header)
FlushContainers(outcome) ==
    /\ omf_pc = "idle"
    /\ IF m_containers = << >>
       THEN /\ flushRet' = "true"
            /\ posted' = << >>
            /\ UNCHANGED m_containers
       ELSE /\ posted' = << << "[" >> >> \o m_containers \o << << "]" >> >>
            /\ m_containers' = afterFlush(m_containers)
            /\ flushRet' = IF outcome[1] # "status" THEN "false"
                           ELSE IF ~httpSuccess(outcome[2])
                                THEN "false" ELSE "true"
    /\ lastFlush' = [ called     |-> "true",
                      empty      |-> IF m_containers = << >> THEN "true" ELSE "false",
                      pending    |-> pendingDefs,
                      outcome    |-> IF m_containers = << >> THEN << "none" >>
                                     ELSE outcome ]
    /\ pendingDefs' = << >>
    /\ UNCHANGED << m_assetSent, m_containerSent, m_linkSent, outData, omf_pc,
                    assetName, needDelim, dpCount, omfCalls, containerDefs, linkRecs,
                    lastKind, namesSeen, processed, notOMF >>

OMFInit ==
    /\ m_assetSent = { }
    /\ m_containerSent = [ l \in { } |-> "" ]
    /\ m_linkSent = { }
    /\ m_containers = << >>
    /\ outData = << >>
    /\ omf_pc = "idle"
    /\ assetName = ""
    /\ needDelim = FALSE
    /\ dpCount = 0
    /\ omfCalls = 0
    /\ containerDefs = [ l \in Links |-> 0 ]
    /\ linkRecs = [ l \in Links |-> 0 ]
    /\ posted = << >>
    /\ flushRet = "none"
    /\ lastKind = "none"
    /\ namesSeen = { }
    /\ processed = { }
    /\ pendingDefs = << >>
    /\ lastFlush = NoFlush

OMFNext ==
    \/ \E asset \in AssetNames, hints \in HintLists : ProcessReadingBegin(asset, hints)
    \/ \E dp \in Datapoints : ProcessReadingDatapoint(dp)
    \/ ProcessReadingReturn
    \/ \E outcome \in HttpOutcomes : FlushContainers(outcome)

\* C1: over any sequence of processReading and flushContainers calls, for every
\* link name L at most one container definition with id L is ever appended to
\* the pending containers and at most one __Link record targeting L is emitted.
C1_AtMostOneContainerAndLink ==
    \A l \in Links : containerDefs[l] <= 1 /\ linkRecs[l] <= 1

\* the same link was processed by two calls and a flush came in between
C1_Witness ==
    /\ omfCalls >= 2
    /\ omf_pc = "idle"
    /\ flushRet # "none"
    /\ \E l \in Links : containerDefs[l] = 1 /\ linkRecs[l] = 1 /\ l \in m_linkSent
    /\ Len(outData) = 1 /\ outData[1][1] = "value"

\* C14: the FledgeAsset record for an asset name (after any TagName or Tag
\* hint) is emitted by the first processReading call with that name and by no
\* later call, and a loop iteration for an asset and datapoint handled before
\* adds only the value record (after its separator), no FledgeAsset or __Link.
C14_AssetRecordByFirstCallOnly ==
    [][ /\ (omfCalls' = omfCalls + 1)
            => ((\E i \in 1 .. Len(outData') : outData'[i] = AssetRecord(assetName'))
                    <=> assetName' \notin namesSeen)
        /\ (dpCount' = dpCount + 1 /\ lastKind' = "repeat")
            => /\ Len(outData') > Len(outData)
               /\ outData'[Len(outData')][1] = "value"
               /\ \A i \in Len(outData) + 1 .. Len(outData') - 1 :
                      outData'[i] = Comma ]_vars

\* the second call for asset a has handled datapoint c again and its fragment
\* holds the value record alone
C14_Witness ==
    /\ omf_pc = "loop"
    /\ lastKind = "repeat"
    /\ assetName = "a"
    /\ outData = << ValueRecord(LinkName("a", "c"), "Double") >>

\* C15: a datapoint whose type is not String, Integer or Float adds nothing to
\* the fragment (no record, no comma), appends no container definition and
\* leaves containerSent and linkSent as they were.
C15_UnsupportedTypeSkipped ==
    [][ (dpCount' = dpCount + 1 /\ lastKind' = "unsupported")
            => UNCHANGED << outData, needDelim, m_containers, m_containerSent,
                            m_linkSent >> ]_vars

\* an unsupported datapoint came after one that had put a value record into
\* the fragment
C15_Witness ==
    /\ omf_pc = "loop"
    /\ lastKind = "unsupported"
    /\ dpCount = 2
    /\ needDelim
    /\ outData # << >> /\ outData[Len(outData)][1] = "value"

RECURSIVE joinDefs(_)
\* container definitions separated by commas
joinDefs(defs) ==
    IF defs = << >> THEN << >>
    ELSE IF Len(defs) = 1 THEN defs
    ELSE << defs[1], Comma >> \o joinDefs(Tail(defs))

\* C16: flushContainers POSTs, as one array, exactly the container definitions
\* accumulated since the previous flush, and leaves the pending buffer empty,
\* so a flush with nothing new sends no request.
C16_FlushPostsPending ==
    /\ m_containers = joinDefs(pendingDefs)
    /\ lastFlush.called = "true"
        => /\ m_containers = << >>
           /\ posted = (IF lastFlush.pending = << >> THEN << >>
                        ELSE << << "[" >> >> \o joinDefs(lastFlush.pending)
                                 \o << << "]" >> >>)

\* containers were built and flushed, and the flush that just returned found
\* nothing pending and sent nothing
C16_Witness ==
    /\ lastFlush.called = "true"
    /\ lastFlush.pending = << >>
    /\ posted = << >>
    /\ flushRet = "true"
    /\ \E l \in Links : containerDefs[l] = 1

\* C17: with a non-empty pending buffer flushContainers returns true exactly
\* when the POST completes with a status in 200..299, and false for any other
\* status, a BadRequest or any other exception; with an empty buffer it
\* returns true without sending.
C17_FlushResult ==
    lastFlush.called = "true"
        => IF lastFlush.empty = "true"
           THEN flushRet = "true" /\ posted = << >>
           ELSE /\ posted # << >>
                /\ flushRet \in { "true", "false" }
                /\ flushRet = "true"
                       <=> (lastFlush.outcome[1] = "status"
                              /\ lastFlush.outcome[2] \in 200 .. 299)

\* a flush of pending containers answered with status 299 returned true
C17_Witness ==
    /\ lastFlush.called = "true"
    /\ lastFlush.empty = "false"
    /\ lastFlush.outcome = << "status", 299 >>
    /\ flushRet = "true"

\* a comma-separated list of records: empty, or records with exactly one
\* comma between two of them and none at either end
wellFormedFragment(out) ==
    \/ out = << >>
    \/ /\ Len(out) % 2 = 1
       /\ \A i \in 1 .. Len(out) : (out[i] = Comma) <=> (i % 2 = 0)

\* C26: the fragment processReading returns is a well-formed comma-separated
\* list: empty, or complete records with exactly one comma between two
\* consecutive records and no leading, trailing or adjacent commas, whatever
\* the mix of first and repeated assets and links and of supported and
\* unsupported datapoint types.
C26_FragmentWellFormed ==
    omf_pc = "idle" => wellFormedFragment(outData)

\* a call that met a skipped datapoint has returned the asset record, the
\* link record and the value record of its other datapoint
C26_Witness ==
    /\ omf_pc = "idle"
    /\ dpCount = 2
    /\ Len(outData) = 5
    /\ outData[1][1] = "FledgeAsset"
    /\ outData[3][1] = "__Link"
    /\ outData[5][1] = "value"

\* C29: when flushContainers returns false the pending buffer is empty and
\* containerSent still holds the links of the definitions of the failed POST;
\* containerSent never loses a link and a definition is appended to the
\* pending buffer only for a link that is not in containerSent, so no later
\* processReading or flushContainers sends those definitions again.
C29_FailedFlushNotResent ==
    [][ /\ (omf_pc = "idle" /\ omf_pc' = "idle" /\ omfVars' # omfVars
              /\ flushRet' = "false")
            => /\ m_containers # << >>
               /\ m_containers' = << >>
               /\ \A i \in 1 .. Len(m_containers) :
                      m_containers[i] # Comma
                          => m_containers[i][2] \in DOMAIN m_containerSent'
        /\ DOMAIN m_containerSent \subseteq DOMAIN m_containerSent'
        /\ \A i \in 1 .. Len(m_containers') :
               (m_containers'[i] # Comma
                  /\ \A j \in 1 .. Len(m_containers) :
                         m_containers[j] # m_containers'[i])
                   => m_containers'[i][2] \notin DOMAIN m_containerSent ]_vars

\* the flush of the first call's definitions failed, and the second call has
\* handled the same datapoint again with nothing put into the pending buffer
C29_Witness ==
    /\ omf_pc = "loop"
    /\ omfCalls = 2
    /\ lastKind = "repeat"
    /\ flushRet = "false"
    /\ posted # << >>
    /\ m_containers = << >>

----------------------------------------------------------------------------
(*          Storage connection: readings table and purgeReadings           *)

\* bounds of the readings-table model
MaxRows == 3            \* rows ever inserted into the readings table

\* user_ts of an inserted row, in seconds before now() (no multiple of 180,
\* so round(seconds / 360) never meets a tie)
RowAges    == { 100, 3700, 7300, 11000 }
PurgeAges  == { 0, 1, 2 }          \* the age argument, in hours
PurgeFlags == { 0, 1, 2 }          \* the flags argument
PurgeSteps == { "oldest", "unsent", "delete", "retained", "count" }

SecondsPerHour == 3600  \* INTERVAL '<age> hours'
OldestDivisor  == 360   \* round(extract(epoch FROM (now() - min(user_ts)))/360)

NoPurge == [ done |-> FALSE ]
NoError == << >>

\* raiseError(operation, reason): manager->setError(operation, reason, false)
raiseError(operation, reason) ==
    [ operation |-> operation, reason |-> reason, retriable |-> FALSE ]

RECURSIVE MaxOf(_)
MaxOf(S) == LET x == CHOOSE y \in S : TRUE
            IN  IF S = { x } THEN x
                ELSE LET m == MaxOf(S \ { x }) IN IF x > m THEN x ELSE m

\* SELECT round(extract(epoch FROM (now() - min(user_ts)))/360); atol() of the
\* value, which is the empty string (NULL) for an empty table
oldestAge(table) ==
    IF table = { } THEN 0
    ELSE (2 * MaxOf({ r.user_ts : r \in table }) + OldestDivisor) \div (2 * OldestDivisor)

\* user_ts < now() - INTERVAL '<age> hours'
olderThan(row, age) == row.user_ts > age * SecondsPerHour

\* a WHERE clause that also deletes the row whose id equals sent
deleteWhere_inclusive(row, age, flags, sent) ==
    /\ olderThan(row, age)
    /\ (flags % 2 = 1 => row.id <= sent)

\* a WHERE clause that protects the unsent rows whatever the flags are
deleteWhere_always(row, age, flags, sent) ==
    /\ olderThan(row, age)
    /\ row.id < sent

\* the WHERE clause of the DELETE: user_ts < now() - INTERVAL '<age> hours',
\* and AND id < <sent> when (flags & 0x01) == 0x01
deleteWhere(row, age, flags, sent) ==
    /\ olderThan(row, age)
    /\ (flags % 2 = 1 => row.id < sent)

\* a row is inserted into the readings table (the INSERT of appendReadings)
InsertRow(user_ts) ==
    /\ ~lastPurge.done
    /\ nextRowId <= MaxRows
    /\ readingsTable' = readingsTable \cup { [ id |-> nextRowId, user_ts |-> user_ts ] }
    /\ nextRowId' = nextRowId + 1
    /\ UNCHANGED << lastPurge, lastError, notPurge >>

\* the caller of purgeReadings has read the result and the return value
PurgeReturned ==
    /\ lastPurge.done
    /\ lastPurge' = NoPurge
    /\ UNCHANGED << readingsTable, nextRowId, lastError, notPurge >>

\* purgeReadings(age, flags, sent, result); failAt names the statement the
\* database fails to execute ("none": every statement succeeds)
PurgeReadings(age, flags, sent, failAt) ==
    LET effAge == IF age = 0 THEN oldestAge(readingsTable) ELSE age
        call   == [ done |-> TRUE, age |-> age, flags |-> flags, sent |-> sent,
                    failAt |-> failAt, before |-> readingsTable ]
    IN
    /\ ~lastPurge.done
    /\ failAt = "oldest" => age = 0
    /\ failAt = "unsent" => flags % 2 = 0
    /\ IF age = 0 /\ failAt = "oldest"
       THEN \* the oldest-row query failed: raiseError("purge", ...); return 0
            /\ lastError' = raiseError("purge", "PQerrorMessage")
            /\ lastPurge' = [ call EXCEPT !.done = TRUE ] @@
                            [ effAge |-> 0, deleted |-> FALSE, ret |-> 0,
                              hasResult |-> FALSE, result |-> << >> ]
            /\ UNCHANGED readingsTable
       ELSE
         LET unsentPurged ==
                 IF flags % 2 = 0 /\ failAt # "unsent"
                 THEN Cardinality({ r \in readingsTable :
                                      olderThan(r, effAge) /\ r.id > sent })
                 ELSE 0
             gone == { r \in readingsTable : deleteWhere(r, effAge, flags, sent) }
         IN  IF failAt = "delete"
             THEN /\ lastError' = raiseError("retrieve", "PQerrorMessage")
                  /\ lastPurge' = call @@
                                  [ effAge |-> effAge, deleted |-> FALSE, ret |-> 0,
                                    hasResult |-> FALSE, result |-> << >> ]
                  /\ UNCHANGED readingsTable
             ELSE
               LET after == readingsTable \ gone
                   unsentRetained ==
                       IF failAt = "retained" THEN 0
                       ELSE Cardinality({ r \in after : r.id > sent })
                   numReadings ==
                       IF failAt = "count" THEN 0 ELSE Cardinality(after)
               IN  /\ readingsTable' = after
                   /\ lastError' = IF failAt \in { "unsent", "retained", "count" }
                                   THEN raiseError("retrieve", "PQerrorMessage")
                                   ELSE lastError
                   /\ lastPurge' = call @@
                          [ effAge |-> effAge, deleted |-> TRUE,
                            ret |-> Cardinality(gone), hasResult |-> TRUE,
                            result |-> [ removed        |-> Cardinality(gone),
                                         unsentPurged   |-> unsentPurged,
                                         unsentRetained |-> unsentRetained,
                                         readings       |-> numReadings ] ]
    /\ UNCHANGED << nextRowId, notPurge >>

PurgeInit ==
    /\ readingsTable = { }
    /\ nextRowId = 1
    /\ lastPurge = NoPurge
    /\ lastError = NoError

PurgeNext ==
    \/ \E ts \in RowAges : InsertRow(ts)
    \/ \E age \in PurgeAges, flags \in PurgeFlags, sent \in 0 .. MaxRows + 1,
          failAt \in PurgeSteps \cup { "none" } :
            PurgeReadings(age, flags, sent, failAt)
    \/ PurgeReturned

\* the purgeReadings call that just returned executed its DELETE
purgeDeleted == lastPurge.done /\ lastPurge.deleted

\* rows that were in the table before the call with id >= sent are still there
unsentKept ==
    \A r \in lastPurge.before : r.id >= lastPurge.sent => r \in readingsTable

\* no row below sent older than now - age hours (the age argument) remains
noOldSentRow ==
    \A r \in readingsTable : ~(r.id < lastPurge.sent /\ olderThan(r, lastPurge.age))

C3_NoOldRowLeft ==
    (purgeDeleted /\ lastPurge.age > 0 /\ lastPurge.flags % 2 = 0)
        => \A r \in readingsTable : ~olderThan(r, lastPurge.age)

\* an unprotected purge removed an old row above sent and one not above it
C3_Witness ==
    /\ purgeDeleted /\ lastPurge.age > 0 /\ lastPurge.flags % 2 = 0
    /\ \E r \in lastPurge.before : r.id > lastPurge.sent /\ r \notin readingsTable
    /\ \E r \in lastPurge.before : r.id <= lastPurge.sent /\ r \notin readingsTable
    /\ readingsTable # { }

\* the table of the worked example: ids 10..14, every user_ts three hours old
ExampleTable == { [ id |-> i, user_ts |-> 3 * SecondsPerHour ] : i \in 10 .. 14 }

\* the sent arguments tried on the example table
ExampleSents == { 0, 12, 14, 20 }

\* the readings table holds the rows of the example
ExampleInit ==
    /\ readingsTable = ExampleTable
    /\ nextRowId = 15
    /\ lastPurge = NoPurge
    /\ lastError = NoError

ExampleNext ==
    \/ \E age \in PurgeAges, flags \in PurgeFlags, sent \in ExampleSents,
          failAt \in PurgeSteps \cup { "none" } :
            PurgeReadings(age, flags, sent, failAt)
    \/ PurgeReturned

\* purgeReadings(2, 1, 12) has returned from the example table, every
\* statement having succeeded
exampleCall ==
    /\ lastPurge.done
    /\ lastPurge.before = ExampleTable
    /\ lastPurge.age = 2 /\ lastPurge.flags = 1 /\ lastPurge.sent = 12
    /\ lastPurge.failAt = "none"

oldestRows(table) ==
    { r \in table : \A q \in table : q.user_ts <= r.user_ts }

\* C25: with age == 0 and a non-empty table the effective age is
\* round(elapsed seconds of the oldest row / 360) hours, and the delete issued
\* with it removes the oldest rows of the table (those below sent when
\* flags & 1) and leaves the rows more than an hour younger than the oldest.
C25_OldestHourRemoved ==
    (purgeDeleted /\ lastPurge.age = 0 /\ lastPurge.failAt = "none"
        /\ lastPurge.before # { })
        => /\ lastPurge.effAge
                  = (2 * MaxOf({ r.user_ts : r \in lastPurge.before }) + 360) \div 720
           /\ \A r \in oldestRows(lastPurge.before) :
                  (lastPurge.flags % 2 = 1 => r.id < lastPurge.sent)
                      => r \notin readingsTable
           /\ \A r \in lastPurge.before :
                  (\A q \in oldestRows(lastPurge.before) :
                       r.user_ts + 3600 < q.user_ts)
                      => r \in readingsTable

\* C27: the summary a purgeReadings call reports is consistent with the table:
\* removed + readings is the number of rows before the call; with
\* flags & 1 == 0 unsentPurged is the number of deleted rows with id > sent and
\* unsentPurged + unsentRetained the number of rows with id > sent before the
\* call; with flags & 1 == 1 unsentPurged is 0.
C27_SummaryConsistent ==
    (lastPurge.done /\ lastPurge.hasResult)
        => LET res  == lastPurge.result
               gone == lastPurge.before \ readingsTable
               unsentBefore == { r \in lastPurge.before : r.id > lastPurge.sent }
           IN  /\ res.removed + res.readings = Cardinality(lastPurge.before)
               /\ lastPurge.flags % 2 = 0
                      => /\ res.unsentPurged
                                = Cardinality({ r \in gone : r.id > lastPurge.sent })
                         /\ res.unsentPurged + res.unsentRetained
                                = Cardinality(unsentBefore)
               /\ lastPurge.flags % 2 = 1 => res.unsentPurged = 0

\* the same consistency for the calls in which every statement succeeded
summaryConsistentOnSuccess ==
    lastPurge.done => (lastPurge.failAt = "none" => C27_SummaryConsistent)

----------------------------------------------------------------------------
(*                 South ingest queue and drain thread                      *)

\* bounds of the ingest model
MaxIngest    == 3       \* readings offered to ingest() per behaviour
MaxThreshold == 2       \* largest queue-size threshold configured

IngestAssets == { "A1", "A2" }

RECURSIVE SubSeqs(_)
\* the order-preserving subsequences of a sequence: what a filter pipeline may
\* pass on when it discards some of the readings it is given
SubSeqs(q) ==
    IF q = << >> THEN { << >> }
    ELSE LET rest == SubSeqs(Tail(q))
         IN  rest \cup { << Head(q) >> \o t : t \in rest }

Ids(q) == { q[i].id : i \in 1 .. Len(q) }

\* a producer that pushes the new reading in front of the queued ones
enqueue_front(queue, reading) == << reading >> \o queue

\* ingest(): m_queue->push_back(reading)
enqueue(queue, reading) == Append(queue, reading)

\* a swap that hands the queue over but leaves the readings queued as well
swapQueue_keep(queue) == [ data |-> queue, queue |-> queue ]

\* processQueue(), under qMutex: m_data takes the queue, m_queue a fresh buffer
swapQueue(queue) == [ data |-> queue, queue |-> << >> ]

\* queueLength()
queueLength == Len(m_queue)

\* ingest(reading): under qMutex, fail fast when not running, else queue the
\* reading; the cv is signalled when the size crosses the threshold
Ingest(asset) ==
    /\ accepted + m_discardedReadings < MaxIngest
    /\ IF ~m_running
       THEN /\ m_discardedReadings' = m_discardedReadings + 1
            /\ UNCHANGED << m_queue, accepted, queuedAfterShutdown >>
       ELSE /\ m_queue' = enqueue(m_queue, [ id |-> accepted + 1, asset |-> asset ])
            /\ accepted' = accepted + 1
            /\ queuedAfterShutdown' = IF shutdownCalled THEN queuedAfterShutdown + 1
                                      ELSE queuedAfterShutdown
            /\ UNCHANGED m_discardedReadings
    /\ UNCHANGED << m_data, m_running, m_queueSizeThreshold, drain_pc, handed,
                    filteredOut, shutdownCalled, notIngest >>

\* the drain thread leaves its wait on the cv because the queue reached the threshold
DrainWakeThreshold ==
    /\ drain_pc = "wait"
    /\ queueLength >= m_queueSizeThreshold
    /\ drain_pc' = "swap"
    /\ UNCHANGED << m_queue, m_data, m_running, m_queueSizeThreshold,
                    m_discardedReadings, accepted, handed, filteredOut,
                    shutdownCalled, queuedAfterShutdown, notIngest >>

\* the drain thread leaves its wait on the cv because the timeout expired
DrainWakeTimeout ==
    /\ drain_pc = "wait"
    /\ queueLength < m_queueSizeThreshold
    /\ drain_pc' = "swap"
    /\ UNCHANGED << m_queue, m_data, m_running, m_queueSizeThreshold,
                    m_discardedReadings, accepted, handed, filteredOut,
                    shutdownCalled, queuedAfterShutdown, notIngest >>

\* processQueue(): the swap of the two buffers under qMutex
DrainSwap ==
    /\ drain_pc = "swap"
    /\ LET sw == swapQueue(m_queue)
       IN  /\ m_data' = sw.data
           /\ m_queue' = sw.queue
    /\ drain_pc' = "filter"
    /\ UNCHANGED << m_running, m_queueSizeThreshold, m_discardedReadings, accepted,
                    handed, filteredOut, shutdownCalled, queuedAfterShutdown,
                    notIngest >>

\* processQueue(): the filter pipeline runs on the drain thread; an empty
\* pipeline passes m_data through, a filter may discard readings
DrainFilter(kept) ==
    /\ drain_pc = "filter"
    /\ kept \in SubSeqs(m_data)
    /\ m_data' = kept
    /\ filteredOut' = filteredOut \cup (Ids(m_data) \ Ids(kept))
    /\ drain_pc' = "append"
    /\ UNCHANGED << m_queue, m_running, m_queueSizeThreshold, m_discardedReadings,
                    accepted, handed, shutdownCalled, queuedAfterShutdown, notIngest >>

\* processQueue(): m_data is handed to storage appendReadings; on failure the
\* batch is counted as discarded and not retried; the thread exits when the
\* service is no longer running
DrainAppend(ok) ==
    /\ drain_pc = "append"
    /\ handed' = handed \o m_data
    /\ m_discardedReadings' = IF ok THEN m_discardedReadings
                              ELSE m_discardedReadings + Len(m_data)
    /\ m_data' = << >>
    /\ drain_pc' = IF m_running THEN "wait" ELSE "exit"
    /\ UNCHANGED << m_queue, m_running, m_queueSizeThreshold, accepted, filteredOut,
                    shutdownCalled, queuedAfterShutdown, notIngest >>

\* setThreshold(threshold)
SetThreshold(threshold) ==
    /\ m_queueSizeThreshold # threshold
    /\ m_queueSizeThreshold' = threshold
    /\ UNCHANGED << m_queue, m_data, m_running, m_discardedReadings, drain_pc,
                    accepted, handed, filteredOut, shutdownCalled,
                    queuedAfterShutdown, notIngest >>

\* shutdown(): the body is empty
Shutdown ==
    /\ ~shutdownCalled
    /\ shutdownCalled' = TRUE
    /\ UNCHANGED << m_queue, m_data, m_running, m_queueSizeThreshold,
                    m_discardedReadings, drain_pc, accepted, handed, filteredOut,
                    queuedAfterShutdown, notIngest >>

IngestInit ==
    /\ m_queue = << >>
    /\ m_data = << >>
    /\ m_running = TRUE
    /\ m_queueSizeThreshold = 1
    /\ m_discardedReadings = 0
    /\ drain_pc = "wait"
    /\ accepted = 0
    /\ handed = << >>
    /\ filteredOut = { }
    /\ shutdownCalled = FALSE
    /\ queuedAfterShutdown = 0

IngestNext ==
    \/ \E asset \in IngestAssets : Ingest(asset)
    \/ DrainWakeThreshold
    \/ DrainWakeTimeout
    \/ DrainSwap
    \/ \E kept \in SubSeqs(m_data) : DrainFilter(kept)
    \/ \E ok \in BOOLEAN : DrainAppend(ok)
    \/ \E threshold \in 1 .. MaxThreshold : SetThreshold(threshold)
    \/ Shutdown

\* how many times reading id occurs in a sequence of readings
Occurrences(q, id) == Cardinality({ i \in 1 .. Len(q) : q[i].id = id })

\* C4: every reading accepted by ingest() is handed to storage appendReadings
\* exactly once: at any moment it is in exactly one of the queue, the drain-owned
\* buffer, the readings already handed to storage, or the readings the filter
\* pipeline discarded, and never twice among those handed to storage.
C4_HandedExactlyOnce ==
    \A id \in 1 .. accepted :
        /\ Occurrences(m_queue, id) + Occurrences(m_data, id) + Occurrences(handed, id)
              + (IF id \in filteredOut THEN 1 ELSE 0) = 1
        /\ (drain_pc = "wait" /\ m_queue = << >>)
              => (Occurrences(handed, id) = 1 \/ id \in filteredOut)

\* one batch has been handed to storage, the drain thread holds the next
\* swapped batch, and a producer has queued a reading in the meantime
C4_Witness ==
    /\ drain_pc = "append"
    /\ handed # << >>
    /\ m_data # << >>
    /\ m_queue # << >>
    /\ accepted = MaxIngest

\* C5: readings are persisted in the order they were queued: of two readings of
\* the same asset, the one queued earlier is handed to storage earlier.
C5_FifoPerAsset ==
    \A i, j \in 1 .. Len(handed) :
        (i < j /\ handed[i].asset = handed[j].asset) => handed[i].id < handed[j].id

\* two readings of one asset reached storage around a reading of another asset
C5_Witness ==
    /\ Len(handed) = 3
    /\ handed[1].asset = handed[3].asset
    /\ handed[1].asset # handed[2].asset

\* C6 as stated: once shutdown() has been called running is false, and no
\* ingest() call made after it adds a reading to the queue.
C6_ShutdownStopsIngest ==
    shutdownCalled => (~m_running /\ queuedAfterShutdown = 0)

----------------------------------------------------------------------------
(*        Storage connection: formatDate (strings are sequences of         *)
(*        one-character strings; "" stands for the terminating NUL)         *)

\* bounds of the formatDate model
MaxFraction == 10       \* digits of the longest fractional part tried

FractionalSize == 10    \* char fractional[10]
FractionDigits == 6     \* fractional[6] = 0; multiplier = 6 - strlen(fractional)

DigitChars == << "0", "1", "2", "3", "4", "5", "6", "7", "8", "9" >>
Digits     == { DigitChars[i] : i \in 1 .. 10 }
DigitVal(c) == (CHOOSE i \in 1 .. 10 : DigitChars[i] = c) - 1

At(s, p) == IF p >= 1 /\ p <= Len(s) THEN s[p] ELSE ""
isspace(c) == c \in { " ", "\t", "\n", "\r" }
Prefix(s, n) == SubSeq(s, 1, IF n < Len(s) THEN n ELSE Len(s))

RECURSIVE skipSpace(_, _)
skipSpace(s, p) == IF isspace(At(s, p)) THEN skipSpace(s, p + 1) ELSE p

RECURSIVE numberLoop(_, _, _, _, _)
\* the do-while of strptime's get_number: one digit, then more while fewer than
\* n were read, val * 10 <= to and a digit follows
numberLoop(s, p, val, n, to) ==
    LET v == val * 10 + DigitVal(s[p])
    IN  IF n - 1 > 0 /\ v * 10 <= to /\ At(s, p + 1) \in Digits
        THEN numberLoop(s, p + 1, v, n - 1, to)
        ELSE [ val |-> v, pos |-> p + 1 ]

\* strptime's get_number(from, to, n) at position p
get_number(s, p, from, to, n) ==
    LET q == skipSpace(s, p)
    IN  IF At(s, q) \notin Digits THEN [ ok |-> FALSE, val |-> 0, pos |-> q ]
        ELSE LET r == numberLoop(s, q, 0, n, to)
             IN  [ ok |-> r.val >= from /\ r.val <= to, val |-> r.val, pos |-> r.pos ]

Num(from, to, n) == [ k |-> "num", c |-> "", from |-> from, to |-> to, n |-> n ]
Lit(c) == [ k |-> "lit", c |-> c, from |-> 0, to |-> 0, n |-> 0 ]
Ws     == [ k |-> "ws", c |-> "", from |-> 0, to |-> 0, n |-> 0 ]
IntD   == [ k |-> "int", c |-> "", from |-> 0, to |-> 0, n |-> 0 ]
SetOfDigits(n) == [ k |-> "set", c |-> "", from |-> 0, to |-> 0, n |-> n ]

\* "%Y-%m-%d %H:%M:%S"
DateFormat ==
    << Num(0, 9999, 4), Lit("-"), Num(1, 12, 2), Lit("-"), Num(1, 31, 2), Ws,
       Num(0, 23, 2), Lit(":"), Num(0, 59, 2), Lit(":"), Num(0, 61, 2) >>

RECURSIVE strptimeRun(_, _, _, _, _)
strptimeRun(s, fmt, i, p, vals) ==
    IF i > Len(fmt) THEN [ ok |-> TRUE, vals |-> vals, pos |-> p ]
    ELSE LET f == fmt[i]
         IN  CASE f.k = "ws"  -> strptimeRun(s, fmt, i + 1, skipSpace(s, p), vals)
               [] f.k = "lit" -> IF At(s, p) = f.c
                                 THEN strptimeRun(s, fmt, i + 1, p + 1, vals)
                                 ELSE [ ok |-> FALSE, vals |-> vals, pos |-> p ]
               [] OTHER       -> LET r == get_number(s, p, f.from, f.to, f.n)
                                 IN  IF r.ok
                                     THEN strptimeRun(s, fmt, i + 1, r.pos,
                                                      Append(vals, r.val))
                                     ELSE [ ok |-> FALSE, vals |-> vals, pos |-> p ]

\* strptime(date, "%Y-%m-%d %H:%M:%S", &tm): the six numbers read, or failure
strptime(date) == strptimeRun(date, DateFormat, 1, 1, << >>)

RECURSIVE decimal(_)
decimal(n) == IF n < 10 THEN << DigitChars[n + 1] >>
              ELSE Append(decimal(n \div 10), DigitChars[(n % 10) + 1])

twoDigits(n) == << DigitChars[(n \div 10) + 1], DigitChars[(n % 10) + 1] >>

\* strftime(formatted_date, buffer_size, "%Y-%m-%d %H:%M:%S", &tm)
strftime(v) ==
    decimal(v[1]) \o << "-" >> \o twoDigits(v[2]) \o << "-" >> \o twoDigits(v[3])
        \o << " " >> \o twoDigits(v[4]) \o << ":" >> \o twoDigits(v[5])
        \o << ":" >> \o twoDigits(v[6])

RECURSIVE digitRun(_, _, _)
\* end of the run of digits starting at p, at most n long (n = 0: any length)
digitRun(s, p, n) ==
    IF At(s, p) \in Digits /\ n # 1 THEN digitRun(s, p + 1, IF n = 0 THEN 0 ELSE n - 1)
    ELSE IF At(s, p) \in Digits THEN p + 1 ELSE p

\* sscanf's %*d at position p: white space, an optional sign, digits
scanInt(s, p) ==
    LET q  == skipSpace(s, p)
        q1 == IF At(s, q) \in { "+", "-" } THEN q + 1 ELSE q
    IN  IF At(s, q1) \in Digits THEN [ ok |-> TRUE, pos |-> digitRun(s, q1, 0) ]
        ELSE [ ok |-> FALSE, pos |-> q ]

RECURSIVE sscanfRun(_, _, _, _, _)
\* sscanf: the strings assigned before the first directive that does not match
sscanfRun(s, fmt, i, p, caps) ==
    IF i > Len(fmt) THEN caps
    ELSE LET f == fmt[i]
         IN  CASE f.k = "ws"  -> sscanfRun(s, fmt, i + 1, skipSpace(s, p), caps)
               [] f.k = "lit" -> IF At(s, p) = f.c
                                 THEN sscanfRun(s, fmt, i + 1, p + 1, caps)
                                 ELSE caps
               [] f.k = "int" -> LET r == scanInt(s, p)
                                 IN  IF r.ok THEN sscanfRun(s, fmt, i + 1, r.pos, caps)
                                     ELSE caps
               [] OTHER       -> LET e == digitRun(s, p, f.n)
                                 IN  IF e > p
                                     THEN sscanfRun(s, fmt, i + 1, e,
                                                    Append(caps, SubSeq(s, p, e - 1)))
                                     ELSE caps

\* "%*d-%*d-%*d %*d:%*d:%*d."
SecondsFormat ==
    << IntD, Lit("-"), IntD, Lit("-"), IntD, Ws, IntD, Lit(":"), IntD, Lit(":"),
       IntD, Lit(".") >>

\* "%*d-%*d-%*d %*d:%*d:%*d.%[0-9]*"
FractionFormat == SecondsFormat \o << SetOfDigits(0), Lit("*") >>

\* "%*d-%*d-%*d %*d:%*d:%*d.%*d-%2[0-9]:%2[0-9]" and the same with +
TimezoneFormat(sign) ==
    SecondsFormat \o << IntD, Lit(sign), SetOfDigits(2), Lit(":"), SetOfDigits(2) >>

Capture(caps, i) == IF i <= Len(caps) THEN caps[i] ELSE << >>

RECURSIVE zeros(_)
zeros(n) == IF n <= 0 THEN << >> ELSE << "0" >> \o zeros(n - 1)

\* the digits sscanf stores into fractional[]
scannedFraction(date) == Capture(sscanfRun(date, FractionFormat, 1, 1, << >>), 1)

\* the sign appended for an offset found by the "-" and by the "+" scan, swapped
timezoneSign_swapped(minus) == IF minus THEN "+" ELSE "-"

\* strcat(sign, "-") after the "-" scan matched, strcat(sign, "+") after the "+" one
timezoneSign(minus) == IF minus THEN "-" ELSE "+"

\* formatDate(formatted_date, buffer_size, date), fractional[] large enough
formatDate(date) ==
    LET tm == strptime(date)
    IN  IF ~tm.ok THEN [ status |-> "invalid", text |-> << >> ]
        ELSE
          LET fractional == Prefix(scannedFraction(date), FractionDigits)
              padded == fractional \o zeros(FractionDigits - Len(fractional))
              base   == strftime(tm.vals) \o << "." >> \o padded
              minus  == sscanfRun(date, TimezoneFormat("-"), 1, 1, << >>)
              plus   == sscanfRun(date, TimezoneFormat("+"), 1, 1, << >>)
              isMinus == Capture(minus, 1) # << >>
              caps   == IF isMinus THEN minus ELSE plus
              timezone_hour == Capture(caps, 1)
              timezone_min  == Capture(caps, 2)
          IN  IF timezone_hour = << >>
              THEN [ status |-> "ok", text |-> base \o << "+", "0", "0", ":", "0", "0" >> ]
              ELSE [ status |-> "ok",
                     text |-> base \o << timezoneSign(isMinus) >>
                              \o (IF Len(timezone_hour) = 1 THEN << "0" >> ELSE << >>)
                              \o timezone_hour \o << ":" >>
                              \o (IF timezone_min # << >>
                                  THEN timezone_min
                                       \o (IF Len(timezone_min) = 1 THEN << "0" >>
                                           ELSE << >>)
                                  ELSE << "0", "0" >>) ]

\* what a call of formatDate can produce: sscanf's %[0-9] has no field width, so
\* a fraction of FractionalSize digits or more is written past fractional[10];
\* the bytes overrun either hit nothing the function reads afterwards (every
\* other local is dead or initialised after the scan) or the process is aborted
formatDateOutcomes(date) ==
    IF strptime(date).ok /\ Len(scannedFraction(date)) >= FractionalSize
    THEN { formatDate(date), [ status |-> "abort", text |-> << >> ] }
    ELSE { formatDate(date) }

NoFormat == [ status |-> "none", text |-> << >> ]

\* ---- the timestamps formatDate is tried on ----

\* YYYY-MM-DD HH:MM:SS parts; the last has month 13, which strptime rejects
DateTexts ==
    { << "2", "0", "1", "9", "-", "0", "3", "-", "0", "4", " ", "1", "0", ":", "0", "3", ":", "0", "4" >>,
      << "2", "0", "2", "4", "-", "1", "2", "-", "3", "1", " ", "2", "3", ":", "5", "9", ":", "5", "9" >>,
      << "2", "0", "1", "9", "-", "1", "3", "-", "0", "4", " ", "1", "0", ":", "0", "3", ":", "0", "4" >> }

\* digit i of the fractions tried
fractionDigit(i) == DigitChars[(i % 10) + 1]

Fractions ==
    { << >>, << "0" >> } \cup { [ i \in 1 .. n |-> fractionDigit(i) ] : n \in 1 .. MaxFraction }

TimezoneHours   == { << "1" >>, << "0", "1" >>, << "1", "2" >> }
TimezoneMinutes == { << >>, << "3" >>, << "3", "0" >>, << "0", "0" >> }

NoTimezone == [ sign |-> "", hour |-> << >>, minute |-> << >> ]

Timezones ==
    { NoTimezone } \cup
    { [ sign |-> sg, hour |-> h, minute |-> mi ] :
        sg \in { "+", "-" }, h \in TimezoneHours, mi \in TimezoneMinutes }

FormatParts ==
    { [ date |-> d, fraction |-> f, tz |-> z ] :
        d \in DateTexts, f \in Fractions, z \in Timezones }

NoParts == [ date |-> << >>, fraction |-> << >>, tz |-> NoTimezone ]

\* the string YYYY-MM-DD HH:MM:SS[.fraction][+/-HH[:MM]] made of the parts
InputText(parts) ==
    parts.date
      \o (IF parts.fraction # << >> THEN << "." >> \o parts.fraction ELSE << >>)
      \o (IF parts.tz.sign # ""
          THEN << parts.tz.sign >> \o parts.tz.hour
               \o (IF parts.tz.minute # << >> THEN << ":" >> \o parts.tz.minute
                   ELSE << >>)
          ELSE << >>)

\* a caller runs formatDate on the input
FormatDateOnce ==
    /\ fd_input # << >>
    /\ fd_first = NoFormat
    /\ fd_first' \in formatDateOutcomes(fd_input)
    /\ UNCHANGED << fd_parts, fd_input, fd_second, lastAppend >>
    /\ UNCHANGED << omfVars, purgeVars, ingestVars, jsonVars, storeVars,
                    queryVars, rawVars >>

\* a caller runs formatDate on the text the first call produced
FormatDateAgain ==
    /\ fd_first.status = "ok"
    /\ fd_second = NoFormat
    /\ fd_second' \in formatDateOutcomes(fd_first.text)
    /\ UNCHANGED << fd_parts, fd_input, fd_first, lastAppend >>
    /\ UNCHANGED << omfVars, purgeVars, ingestVars, jsonVars, storeVars,
                    queryVars, rawVars >>

FormatNext == FormatDateOnce \/ FormatDateAgain

\* C8: formatDate is idempotent on accepted input: whenever formatDate(S)
\* succeeded for a timestamp S of the accepted grammar, formatDate applied to
\* its result succeeds and returns that same text.
C8_FormatDateIdempotent ==
    fd_second.status # "none" => fd_second = fd_first /\ fd_second.status = "ok"

\* an input that formatDate rewrites (long fraction truncated, one-digit hour
\* of a negative offset padded) and whose result was formatted again
C8_Witness ==
    /\ fd_second.status = "ok"
    /\ fd_first.text # fd_input
    /\ Len(fd_parts.fraction) > FractionDigits
    /\ fd_parts.tz.sign = "-"
    /\ Len(fd_parts.tz.hour) = 1

\* the text YYYY-MM-DD HH:MM:SS.uuuuuu+/-HH:MM that the parts of the input call for
canonicalText(parts) ==
    parts.date \o << "." >>
      \o Prefix(parts.fraction, FractionDigits)
      \o zeros(FractionDigits - Len(parts.fraction))
      \o (IF parts.tz.sign = "" THEN << "+", "0", "0", ":", "0", "0" >>
          ELSE << parts.tz.sign >>
               \o zeros(2 - Len(parts.tz.hour)) \o parts.tz.hour \o << ":" >>
               \o parts.tz.minute \o zeros(2 - Len(parts.tz.minute)))

\* C9: for every accepted input YYYY-MM-DD HH:MM:SS[.fraction][+/-HH[:MM]]
\* formatDate produces YYYY-MM-DD HH:MM:SS.uuuuuu+/-HH:MM: the fraction padded
\* or truncated to 6 digits, an offset of the input kept with its sign (hour
\* and minutes padded, minutes defaulted to 00) with or without a fraction,
\* and +00:00 only when the input has no offset.
C9_CanonicalOutput ==
    (fd_first.status # "none" /\ strptime(fd_parts.date).ok)
        => fd_first = [ status |-> "ok", text |-> canonicalText(fd_parts) ]

----------------------------------------------------------------------------
(*                 Storage connection: appendReadings                       *)

\* bounds of the appendReadings model
MaxBatch == 2           \* elements of the longest readings array tried

Letters ==
    { "a", "b", "c", "d", "e", "f", "g", "h", "i", "j", "k", "l", "m", "n", "o", "p", "q", "r", "s", "t", "u", "v", "w", "x", "y", "z" } \cup
    { "A", "B", "C", "D", "E", "F", "G", "H", "I", "J", "K", "L", "M", "N", "O", "P", "Q", "R", "S", "T", "U", "V", "W", "X", "Y", "Z" }

\* regex_match(s, "[a-zA-Z][a-zA-Z0-9_]*\\(.*\\)")
isFunctionCall(s) ==
    \E k \in 2 .. Len(s) - 1 :
        /\ s[1] \in Letters
        /\ \A j \in 2 .. k - 1 : s[j] \in Letters \cup Digits \cup { "_" }
        /\ s[k] = "("
        /\ s[Len(s)] = ")"
        /\ \A j \in k + 1 .. Len(s) - 1 : s[j] \notin { "\n", "\r" }

\* user_ts values tried: a function call, two timestamps formatDate accepts,
\* and two it rejects (month 13, no date at all)
UserTsTexts ==
    { << "n", "o", "w", "(", ")" >>,
      << "2", "0", "1", "9", "-", "0", "3", "-", "0", "4", " ", "1", "0", ":", "0", "3", ":", "0", "4", ".", "5", "+", "0", "1", ":", "0", "0" >>,
      << "2", "0", "1", "9", "-", "0", "3", "-", "0", "4", " ", "1", "0", ":", "0", "3", ":", "0", "4" >>,
      << "2", "0", "1", "9", "-", "1", "3", "-", "0", "4", " ", "1", "0", ":", "0", "3", ":", "0", "4" >>,
      << "b", "o", "g", "u", "s" >> }

ReadKeys == { "absent", "None", "k1" }

NotAnObject == [ object |-> "false", user_ts |-> << >>, read_key |-> "absent" ]

ReadingElements ==
    { NotAnObject } \cup
    { [ object |-> "true", user_ts |-> t, read_key |-> k ] :
        t \in UserTsTexts, k \in ReadKeys }

RECURSIVE ElementSeqs(_)
ElementSeqs(n) ==
    IF n = 0 THEN { << >> }
    ELSE ElementSeqs(n - 1) \cup
         { Append(q, e) : q \in { x \in ElementSeqs(n - 1) : Len(x) = n - 1 },
                          e \in ReadingElements }

\* payloads: not JSON, no "readings" member, "readings" not an array, an array
Payloads ==
    { [ kind |-> k, elems |-> << >> ] : k \in { "garbled", "noReadings", "notArray" } }
    \cup { [ kind |-> "array", elems |-> q ] : q \in ElementSeqs(MaxBatch) }

\* the row "( user_ts, asset_code, read_key, reading )" appended for a reading
sqlRow(user_ts, quoted, reading) ==
    [ user_ts  |-> user_ts,
      quoted   |-> IF quoted THEN "true" ELSE "false",
      read_key |-> IF reading.read_key \in { "absent", "None" } THEN "NULL"
                   ELSE reading.read_key ]

\* formatDate and the function-call test on each user_ts tried, tabulated
formatDateOf == [ t \in UserTsTexts |-> formatDate(t) ]
isFunctionCallOf == [ t \in UserTsTexts |-> isFunctionCall(t) ]

\* one iteration of the loop over the readings array
appendRow(st, reading) ==
    IF st.abort = "true" THEN st
    ELSE IF reading.object = "false"
    THEN [ st EXCEPT !.abort = "true",
                     !.error = raiseError("appendReadings",
                                   "Each reading in the readings array must be an object") ]
    ELSE IF isFunctionCallOf[reading.user_ts]
    THEN [ st EXCEPT !.rows = Append(@, sqlRow(reading.user_ts, FALSE, reading)) ]
    ELSE IF formatDateOf[reading.user_ts].status # "ok"
    THEN [ st EXCEPT !.error = raiseError("appendReadings", "Invalid date |%s|") ]
    ELSE [ st EXCEPT !.rows = Append(@, sqlRow(formatDateOf[reading.user_ts].text,
                                               TRUE, reading)) ]

RECURSIVE buildInsert(_, _, _)
\* the rows of the INSERT after the loop, the error raised on the way, and
\* whether the loop returned early
buildInsert(elems, i, st) ==
    IF i > Len(elems) THEN st
    ELSE buildInsert(elems, i + 1, appendRow(st, elems[i]))

\* what atoi(PQcmdTuples(res)) can yield once PQclear(res) has freed res: the
\* count of the command if the freed block is still intact, otherwise whatever
\* number its bytes now spell
countAfterClear(n, most) == { n } \cup (0 .. most)

NoAppend == [ done |-> "false" ]

\* the state a call of appendReadings leaves behind
appendResult(payload, st, early, db, ret) ==
    [ done     |-> "true",
      payload  |-> payload,
      executed |-> IF early THEN "false" ELSE "true",
      db       |-> db,
      rows     |-> IF early THEN << >> ELSE st.rows,
      ret      |-> ret ]

\* appendReadings(readings); db is what the server does with a well-formed
\* statement
AppendReadings(payload, db) ==
    /\ lastAppend = NoAppend
    /\ LET st == buildInsert(payload.elems, 1,
                             [ rows |-> << >>, error |-> lastError, abort |-> "false" ])
           early == payload.kind # "array" \/ st.abort = "true"
       IN  IF payload.kind # "array"
           THEN /\ db = "ok"
                /\ lastError' = raiseError("appendReadings",
                                           "Payload is missing a readings array")
                /\ lastAppend' = appendResult(payload, st, TRUE, db, -1)
           ELSE IF st.abort = "true"
           THEN /\ db = "ok"
                /\ lastError' = st.error
                /\ lastAppend' = appendResult(payload, st, TRUE, db, -1)
           ELSE IF st.rows = << >>
           THEN \* "INSERT ... VALUES ;" with no row is not a statement
                /\ db = "ok"
                /\ lastError' = raiseError("appendReadings", "PQerrorMessage")
                /\ lastAppend' = appendResult(payload, st, FALSE, db, -1)
           ELSE IF db = "fail"
           THEN /\ lastError' = raiseError("appendReadings", "PQerrorMessage")
                /\ lastAppend' = appendResult(payload, st, FALSE, db, -1)
           ELSE /\ lastError' = st.error
                /\ \E ret \in countAfterClear(Len(st.rows), Len(payload.elems)) :
                       lastAppend' = appendResult(payload, st, FALSE, db, ret)
    /\ UNCHANGED << readingsTable, nextRowId, lastPurge >>
    /\ UNCHANGED << fd_parts, fd_input, fd_first, fd_second >>
    /\ UNCHANGED << omfVars, ingestVars, jsonVars, storeVars, queryVars,
                    rawVars >>

\* the caller has taken the result
AppendReturned ==
    /\ lastAppend # NoAppend
    /\ lastAppend' = NoAppend
    /\ UNCHANGED << readingsTable, nextRowId, lastPurge, lastError >>
    /\ UNCHANGED << fd_parts, fd_input, fd_first, fd_second >>
    /\ UNCHANGED << omfVars, ingestVars, jsonVars, storeVars, queryVars,
                    rawVars >>

AppendNext ==
    \/ \E payload \in Payloads, db \in { "ok", "fail" } : AppendReadings(payload, db)
    \/ AppendReturned

\* whether a reading's user_ts is a function call or a date formatDate accepts
validUserTs(reading) ==
    isFunctionCallOf[reading.user_ts] \/ strptime(reading.user_ts).ok

RECURSIVE validReadings(_)
\* the readings of a payload with a valid user_ts, in payload order
validReadings(elems) ==
    IF elems = << >> THEN << >>
    ELSE (IF validUserTs(Head(elems)) THEN << Head(elems) >> ELSE << >>)
         \o validReadings(Tail(elems))

\* row i of the INSERT was built from reading r
rowOf(row, r) ==
    /\ row.read_key = (IF r.read_key = "k1" THEN "k1" ELSE "NULL")
    /\ IF isFunctionCallOf[r.user_ts]
       THEN row.quoted = "false" /\ row.user_ts = r.user_ts
       ELSE row.quoted = "true" /\ row.user_ts = formatDateOf[r.user_ts].text

\* the call was given an array of reading objects, some of them with an
\* unparseable user_ts, and the server was healthy
appendOfReadings ==
    /\ lastAppend.done = "true"
    /\ lastAppend.payload.kind = "array"
    /\ \A i \in 1 .. Len(lastAppend.payload.elems) :
           lastAppend.payload.elems[i].object = "true"
    /\ \E i \in 1 .. Len(lastAppend.payload.elems) :
           ~validUserTs(lastAppend.payload.elems[i])
    /\ lastAppend.db = "ok"

\* C7: appendReadings on a batch in which some readings have an unparseable
\* user_ts builds one INSERT holding exactly the readings with a valid user_ts
\* (or a function call) in payload order, does not abort the batch, and
\* returns the number of valid rows, also when every row is invalid.
C7_InvalidRowsSkipped ==
    appendOfReadings =>
        LET valid == validReadings(lastAppend.payload.elems)
        IN  /\ lastAppend.executed = "true"
            /\ Len(lastAppend.rows) = Len(valid)
            /\ \A i \in 1 .. Len(valid) : rowOf(lastAppend.rows[i], valid[i])
            /\ lastAppend.ret = Len(valid)

----------------------------------------------------------------------------
(*   LazyJSON: positions are 1-based indexes into m_str, 0 is NULL         *)

\* bounds of the LazyJSON model
MaxMembers == 2         \* members of the largest object document tried
MaxElements == 2        \* elements of the largest array tried

NULL == 0
Quote == "\""

RECURSIVE objectEndRun(_, _, _, _, _, _, _)
\* the loop of objectEnd from position p
objectEndRun(str, p, nested, quoted, escaped, st, ed) ==
    IF At(str, p) = "" THEN NULL
    ELSE IF At(str, p) = Quote /\ ~escaped
    THEN objectEndRun(str, p + 1, nested, ~quoted, FALSE, st, ed)
    ELSE IF At(str, p) = "\\" /\ ~escaped
    THEN objectEndRun(str, p + 1, nested, quoted, TRUE, st, ed)
    ELSE IF ~quoted /\ At(str, p) = st
    THEN objectEndRun(str, p + 1, nested + 1, quoted, FALSE, st, ed)
    ELSE IF ~quoted /\ At(str, p) = ed
    THEN IF nested - 1 = 0 THEN p
         ELSE objectEndRun(str, p + 1, nested - 1, quoted, FALSE, st, ed)
    ELSE objectEndRun(str, p + 1, nested, quoted, FALSE, st, ed)

\* objectEnd(start): the position of the bracket closing the one at start
objectEnd(str, start) ==
    IF At(str, start) = "["
    THEN objectEndRun(str, start, 0, FALSE, FALSE, "[", "]")
    ELSE objectEndRun(str, start, 0, FALSE, FALSE, "{", "}")

\* strncmp(p, searchFor, len) == 0
strncmpEqual(str, p, searchFor, len) ==
    \A i \in 0 .. len - 1 : At(str, p + i) = searchFor[i + 1]

RECURSIVE skipToValue(_, _)
\* while (*p && (isspace(*p) || *p == ':')) p++
skipToValue(str, p) ==
    IF At(str, p) # "" /\ (isspace(At(str, p)) \/ At(str, p) = ":")
    THEN skipToValue(str, p + 1)
    ELSE p

RECURSIVE attributeScan(_, _, _, _, _)
\* the search loop of getAttribute from position p
attributeScan(str, p, end, searchFor, len) ==
    IF ~(p < end) THEN NULL
    ELSE IF strncmpEqual(str, p, searchFor, len)
    THEN skipToValue(str, p + len + 2)
    ELSE attributeScan(str, p + 1, end, searchFor, len)

\* getAttribute(name) in the frame state
getAttribute(str, state, name) ==
    IF ~state.inObject THEN NULL
    ELSE attributeScan(str, state.object, state.objectEnd,
                       << Quote >> \o name \o << Quote >>, Len(name))

RECURSIVE nextArrayElementRun(_, _, _, _, _, _)
\* the loop of nextArrayElement from position p
nextArrayElementRun(str, p, nested, object, quoted, escaped) ==
    LET c == At(str, p)
    IN  IF c = "" THEN NULL
        ELSE IF c = Quote /\ ~escaped
        THEN nextArrayElementRun(str, p + 1, nested, object, ~quoted, escaped)
        ELSE IF c = "\\" /\ ~escaped
        THEN nextArrayElementRun(str, p + 1, nested, object, quoted, TRUE)
        ELSE IF c = "{" /\ ~escaped
        THEN nextArrayElementRun(str, p + 1, nested, object + 1, quoted, escaped)
        ELSE IF c = "}" /\ ~escaped
        THEN nextArrayElementRun(str, p + 1, nested, object - 1, quoted, escaped)
        ELSE IF ~quoted /\ c = "["
        THEN nextArrayElementRun(str, p + 1, nested + 1, object, quoted, escaped)
        ELSE IF ~quoted /\ nested > 0 /\ c = "]"
        THEN nextArrayElementRun(str, p + 1, nested - 1, object, quoted, escaped)
        ELSE IF ~quoted /\ nested = 0 /\ c = "]"
        THEN NULL
        ELSE IF ~quoted /\ nested = 0 /\ object = 0 /\ c = ","
        THEN LET q == skipSpace(str, p + 1)
             IN  IF At(str, q) # "" THEN q ELSE NULL
        ELSE nextArrayElementRun(str, p + 1, nested, object, quoted, FALSE)

\* nextArrayElement(p)
nextArrayElement(str, p) ==
    IF p = NULL THEN NULL
    ELSE nextArrayElementRun(str, p, 0, 0, FALSE, FALSE)

RECURSIVE getArraySizeRun(_, _, _, _, _, _, _)
\* the loop of getArraySize from position p
getArraySizeRun(str, p, nested, object, quoted, escaped, size) ==
    LET c == At(str, p)
    IN  IF c = "" THEN -1
        ELSE IF c = Quote /\ ~escaped
        THEN getArraySizeRun(str, p + 1, nested, object, ~quoted, escaped, size)
        ELSE IF c = "\\" /\ ~escaped
        THEN getArraySizeRun(str, p + 1, nested, object, quoted, TRUE, size)
        ELSE IF c = "{" /\ ~escaped
        THEN getArraySizeRun(str, p + 1, nested, object + 1, quoted, escaped, size)
        ELSE IF c = "}" /\ ~escaped
        THEN getArraySizeRun(str, p + 1, nested, object - 1, quoted, escaped, size)
        ELSE IF ~quoted /\ c = "["
        THEN getArraySizeRun(str, p + 1, nested + 1, object, quoted, escaped, size)
        ELSE IF ~quoted /\ nested > 0 /\ c = "]"
        THEN getArraySizeRun(str, p + 1, nested - 1, object, quoted, escaped, size)
        ELSE IF ~quoted /\ nested = 0 /\ c = "]"
        THEN size
        ELSE IF ~quoted /\ nested = 0 /\ object = 0 /\ c = ","
        THEN LET q == skipSpace(str, p + 1)
             IN  IF At(str, q) # ""
                 THEN getArraySizeRun(str, q, nested, object, quoted, FALSE, size + 1)
                 ELSE -1
        ELSE getArraySizeRun(str, p + 1, nested, object, quoted, FALSE, size)

\* int nested = 0, object = 0, size = 1
firstSize == 1

\* getArraySize(p)
getArraySize(str, p) == getArraySizeRun(str, p, 0, 0, FALSE, FALSE, firstSize)

\* getArray(p): the cursor returned, and the frame pushed if there is one
getArray(str, p) ==
    IF At(str, p) # "[" THEN [ ret |-> NULL, push |-> FALSE ]
    ELSE LET p1 == skipSpace(str, p + 1)
         IN  IF At(str, p1) = "" THEN [ ret |-> NULL, push |-> FALSE ]
             ELSE [ ret |-> p1, push |-> TRUE ]

\* the frame getArray pushes for the array at p
arrayState(str, p) ==
    [ inObject |-> FALSE, inArray |-> TRUE, object |-> p, objectEnd |-> objectEnd(str, p) ]

\* ---- the documents tried ----

JsonKeys == { << "k" >>, << "k", "e", "y" >>, << "k", "e", "z" >>, << "a" >> }

\* names looked up: the keys, a name no document has, and a name one character
\* longer than a key
JsonNames == JsonKeys \cup { << "z", "z" >>, << "k", "e", "y", "s" >> }

IntValue(text) == [ kind |-> "int", key |-> << >>, text |-> text ]
StringValue(text) == [ kind |-> "str", key |-> << >>, text |-> text ]
ObjectValue(key, text) == [ kind |-> "obj", key |-> key, text |-> text ]

\* a number, strings (one spelling a key, one with an escaped quote), and
\* nested objects with one member
JsonValues ==
    { IntValue(<< "1" >>),
      StringValue(<< "k", "e", "y" >>),
      StringValue(<< "\\", Quote, "k" >>),
      ObjectValue(<< "k", "e", "y" >>, << "2" >>),
      ObjectValue(<< "a" >>, << "3" >>) }

JsonMembers == { [ key |-> k, val |-> v ] : k \in JsonKeys, v \in JsonValues }

RECURSIVE MemberSeqs(_)
\* sequences of at most n members with distinct keys
MemberSeqs(n) ==
    IF n = 0 THEN { << >> }
    ELSE MemberSeqs(n - 1) \cup
         { Append(q, e) : q \in { x \in MemberSeqs(n - 1) : Len(x) = n - 1 },
                          e \in JsonMembers }

distinctKeys(members) ==
    \A i, j \in 1 .. Len(members) : members[i].key = members[j].key => i = j

\* the texts of the array elements tried: a number, strings (plain, holding a
\* brace, a bracket, a comma, an escaped quote), an object and an array
ArrayElements ==
    { << "1" >>,
      << Quote, "x", Quote >>,
      << Quote, "{", Quote >>,
      << Quote, "]", Quote >>,
      << Quote, ",", Quote >>,
      << Quote, "\\", Quote, Quote >>,
      << "{", Quote, "k", Quote, ":", "1", ",", Quote, "a", Quote, ":", "2", "}" >>,
      << "[", "2", ",", "3", "]" >> }

RECURSIVE ArrayElementSeqs(_)
ArrayElementSeqs(n) ==
    IF n = 0 THEN { << >> }
    ELSE ArrayElementSeqs(n - 1) \cup
         { Append(q, e) : q \in { x \in ArrayElementSeqs(n - 1) : Len(x) = n - 1 },
                          e \in ArrayElements }

\* how the text of an array ends: with its ], without it, or after a comma
ArrayEndings == { "closed", "open", "comma" }

gapText(spaced) == IF spaced THEN << " " >> ELSE << >>

RECURSIVE elementsText(_, _, _)
elementsText(elems, spaced, i) ==
    IF i > Len(elems) THEN << >>
    ELSE (IF i > 1 THEN << "," >> \o gapText(spaced) ELSE << >>)
         \o elems[i] \o elementsText(elems, spaced, i + 1)

\* the text of an array
arrayText(elems, spaced, ending) ==
    << "[" >> \o gapText(spaced) \o elementsText(elems, spaced, 1)
        \o (CASE ending = "closed" -> << "]" >>
               [] ending = "comma"  -> << "," >>
               [] OTHER             -> << >>)

ArrayValue(elems, spaced) ==
    [ kind |-> "arr", key |-> << >>, text |-> arrayText(elems, spaced, "closed") ]

\* documents that are an array
ArraySources ==
    { [ kind |-> "array", members |-> << >>, spaced |-> FALSE,
        elems |-> q, arraySpaced |-> sp, ending |-> e ] :
        q \in ArrayElementSeqs(MaxElements), sp \in BOOLEAN, e \in ArrayEndings }

\* documents that are an object whose member "a" is an array
ArrayMemberSources ==
    { [ kind |-> "object",
        members |-> << [ key |-> << "a" >>, val |-> ArrayValue(q, sp) ] >>,
        spaced |-> FALSE, elems |-> q, arraySpaced |-> sp, ending |-> "closed" ] :
        q \in ArrayElementSeqs(MaxElements), sp \in BOOLEAN }

JsonSources ==
    ArraySources \cup ArrayMemberSources \cup
    { [ kind |-> "object", members |-> q, spaced |-> sp ] :
        q \in { x \in MemberSeqs(MaxMembers) : distinctKeys(x) },
        sp \in BOOLEAN }

NoSource == [ kind |-> "none", members |-> << >>, spaced |-> FALSE ]

hasArray(src) == "elems" \in DOMAIN src

valueText(v) ==
    CASE v.kind = "int" -> v.text
      [] v.kind = "arr" -> v.text
      [] v.kind = "str" -> << Quote >> \o v.text \o << Quote >>
      [] OTHER -> << "{", Quote >> \o v.key \o << Quote, ":" >> \o v.text \o << "}" >>

colonText(spaced) == IF spaced THEN << ":", " " >> ELSE << ":" >>

memberText(m, spaced) ==
    << Quote >> \o m.key \o << Quote >> \o colonText(spaced) \o valueText(m.val)

RECURSIVE membersText(_, _, _)
membersText(members, spaced, i) ==
    IF i > Len(members) THEN << >>
    ELSE (IF i > 1 THEN << "," >> ELSE << >>)
         \o memberText(members[i], spaced) \o membersText(members, spaced, i + 1)

\* the text of a document
documentText(src) ==
    IF src.kind = "array" THEN arrayText(src.elems, src.arraySpaced, src.ending)
    ELSE << "{" >> \o membersText(src.members, src.spaced, 1) \o << "}" >>

\* where the value of member i starts in the text of the document
valuePosition(src, i) ==
    1 + Len(membersText(SubSeq(src.members, 1, i - 1), src.spaced, 1))
      + (IF i > 1 THEN 1 ELSE 0)
      + Len(src.members[i].key) + 2 + Len(colonText(src.spaced)) + 1

\* where the value of the one member of the object of member i starts
innerValuePosition(src, i) ==
    valuePosition(src, i) + 1 + Len(src.members[i].val.key) + 2 + 1

\* ---- the parser ----

\* the frame the constructor builds; objectEnd is only set for an object and
\* is not read while inObject is false
firstState(str) ==
    [ inObject  |-> At(str, 1) = "{",
      inArray   |-> At(str, 1) = "[",
      object    |-> 1,
      objectEnd |-> IF At(str, 1) = "{" THEN objectEnd(str, 1) ELSE NULL ]

NoAttribute == [ called |-> FALSE, name |-> << >>, ret |-> NULL ]
NoElement == [ called |-> FALSE, op |-> "", arg |-> NULL, ret |-> NULL ]
NoSize == [ called |-> FALSE, arg |-> NULL, ret |-> 0 ]
NoCursor == [ ret |-> NULL, object |-> NULL, objectEnd |-> NULL ]

\* a cursor and the frame it was resolved in
cursorIn(ret, state) ==
    [ ret |-> ret, object |-> state.object, objectEnd |-> state.objectEnd ]

\* LazyJSON(str) for each document tried
JSONInit ==
    /\ json_src \in JsonSources
    /\ m_str = documentText(json_src)
    /\ m_state = firstState(m_str)
    /\ m_stateStack = << m_state >>
    /\ lastAttribute = NoAttribute
    /\ json_frame = 0
    /\ lastElement = NoElement
    /\ lastSize = NoSize
    /\ json_walk = << >>
    /\ lastCursor = NoCursor

\* no document is being parsed
JSONOff ==
    /\ json_src = NoSource
    /\ m_str = << >>
    /\ m_state = firstState(<< >>)
    /\ m_stateStack = << >>
    /\ lastAttribute = NoAttribute
    /\ json_frame = 0
    /\ lastElement = NoElement
    /\ lastSize = NoSize
    /\ json_walk = << >>
    /\ lastCursor = NoCursor

\* getAttribute(name)
GetAttribute(name) ==
    /\ m_stateStack # << >>
    /\ lastAttribute' = [ called |-> TRUE, name |-> name,
                          ret |-> getAttribute(m_str, m_state, name) ]
    /\ lastCursor' = cursorIn(lastAttribute'.ret, m_state)
    /\ UNCHANGED << m_str, m_stateStack, m_state, json_src, json_frame,
                    lastElement, lastSize, json_walk >>
    /\ UNCHANGED notJSON

\* getObject(p) with p the cursor the last getAttribute returned
GetObject ==
    /\ lastAttribute.called
    /\ lastAttribute.ret # NULL
    /\ At(m_str, lastAttribute.ret) = "{"
    /\ m_state' = [ inObject  |-> TRUE,
                    inArray   |-> FALSE,
                    object    |-> lastAttribute.ret,
                    objectEnd |-> objectEnd(m_str, lastAttribute.ret) ]
    /\ m_stateStack' = Append(m_stateStack, m_state')
    /\ json_frame' = CHOOSE i \in 1 .. Len(json_src.members) :
                         valuePosition(json_src, i) = lastAttribute.ret
    /\ lastAttribute' = NoAttribute
    /\ lastCursor' = cursorIn(lastAttribute.ret, m_state')
    /\ UNCHANGED << m_str, json_src, lastElement, lastSize, json_walk >>
    /\ UNCHANGED notJSON

\* getArray(p) with p the cursor the last getAttribute returned or, for a
\* document that is an array, the start of the document
GetArray(p) ==
    /\ json_walk = << >>
    /\ \/ lastAttribute.called /\ lastAttribute.ret # NULL /\ p = lastAttribute.ret
       \/ ~lastAttribute.called /\ m_state.inArray /\ p = m_state.object
    /\ LET r == getArray(m_str, p)
       IN  /\ lastElement' = [ called |-> TRUE, op |-> "getArray", arg |-> p,
                               ret |-> r.ret ]
           /\ IF r.push
              THEN /\ m_state' = arrayState(m_str, p)
                   /\ m_stateStack' = Append(m_stateStack, m_state')
                   /\ json_frame' = -1
                   /\ json_walk' = << r.ret >>
                   /\ lastCursor' = cursorIn(r.ret, m_state')
                   /\ lastAttribute' = NoAttribute
              ELSE /\ lastCursor' = cursorIn(NULL, m_state)
                   /\ UNCHANGED << m_state, m_stateStack, json_frame, json_walk,
                                   lastAttribute >>
    /\ UNCHANGED << m_str, json_src, lastSize >>
    /\ UNCHANGED notJSON

\* nextArrayElement(p) with p the cursor the walk has reached
NextArrayElement ==
    /\ json_walk # << >>
    /\ LET p == json_walk[Len(json_walk)]
           ret == nextArrayElement(m_str, p)
       IN  /\ lastElement' = [ called |-> TRUE, op |-> "nextArrayElement",
                               arg |-> p, ret |-> ret ]
           /\ json_walk' = IF p = NULL THEN json_walk ELSE Append(json_walk, ret)
           /\ lastCursor' = cursorIn(ret, m_state)
    /\ lastElement # lastElement'
    /\ UNCHANGED << m_str, m_stateStack, m_state, lastAttribute, json_src, json_frame,
                    lastSize >>
    /\ UNCHANGED notJSON

\* getArraySize(p) with p the cursor the walk has reached
GetArraySize ==
    /\ json_walk # << >>
    /\ json_walk[Len(json_walk)] # NULL
    /\ lastSize' = [ called |-> TRUE, arg |-> json_walk[Len(json_walk)],
                     ret |-> getArraySize(m_str, json_walk[Len(json_walk)]) ]
    /\ UNCHANGED << m_str, m_stateStack, m_state, lastAttribute, json_src, json_frame,
                    lastElement, json_walk, lastCursor >>
    /\ UNCHANGED notJSON

JSONNext ==
    \/ \E name \in JsonNames : GetAttribute(name)
    \/ GetObject
    \/ \E p \in 1 .. Len(m_str) : GetArray(p)
    \/ NextArrayElement
    \/ GetArraySize

\* the cursor of the value whose key in the current frame is exactly name
exactKeyValue(name) ==
    IF json_src.kind # "object" \/ json_frame = -1 THEN NULL
    ELSE IF json_frame = 0
    THEN IF \E i \in 1 .. Len(json_src.members) : json_src.members[i].key = name
         THEN valuePosition(json_src,
                  CHOOSE i \in 1 .. Len(json_src.members) : json_src.members[i].key = name)
         ELSE NULL
    ELSE IF json_src.members[json_frame].val.key = name
    THEN innerValuePosition(json_src, json_frame)
    ELSE NULL

\* C10: attribute(name) returns the cursor of the value of the key exactly
\* equal to name among the keys of the current object frame, and nothing when
\* the frame has no such key or is not an object; text in string values, keys
\* of nested objects and keys sharing only a prefix with name never match.
C10_ExactKeyOnly ==
    lastAttribute.called => lastAttribute.ret = exactKeyValue(lastAttribute.name)

\* the document is well-formed JSON
wellFormed(src) == src.kind = "object" \/ (src.kind = "array" /\ src.ending = "closed")

\* C11: in a well-formed document every cursor returned by attribute,
\* enterObject, enterArray and nextArrayElement lies between the start and the
\* end of the frame in which it was resolved.
C11_CursorInsideFrame ==
    (wellFormed(json_src) /\ lastCursor.ret # NULL)
        => (lastCursor.object <= lastCursor.ret /\ lastCursor.ret <= lastCursor.objectEnd)

\* where the array of the document starts
arrayStart(src) == IF src.kind = "array" THEN 1 ELSE valuePosition(src, 1)

\* where element j of the array of the document starts
elementPosition(src, j) ==
    arrayStart(src) + 1 + Len(gapText(src.arraySpaced))
      + Len(elementsText(SubSeq(src.elems, 1, j - 1), src.arraySpaced, 1))
      + (IF j > 1 THEN 1 + Len(gapText(src.arraySpaced)) ELSE 0)

\* the cursors a complete walk over the array of the document returns
elementWalk(src) ==
    [ j \in 1 .. Len(src.elems) + 1 |->
        IF j <= Len(src.elems) THEN elementPosition(src, j) ELSE NULL ]

\* C12: for a well-formed array with n >= 1 elements, enterArray followed by
\* repeated nextArrayElement returns the start of each of the n elements once,
\* in document order, and then nothing; nested objects, nested arrays and
\* quoted strings (with braces, brackets, commas or escaped quotes) are each
\* skipped as one element.
C12_WalkVisitsEachElement ==
    (json_walk # << >> /\ hasArray(json_src) /\ wellFormed(json_src)
        /\ Len(json_src.elems) >= 1)
        => /\ Len(json_walk) <= Len(json_src.elems) + 1
           /\ \A j \in 1 .. Len(json_walk) : json_walk[j] = elementWalk(json_src)[j]

\* the number of elements of the array of the document from position p on
elementsFrom(src, p) ==
    Cardinality({ j \in 1 .. Len(src.elems) : elementPosition(src, j) >= p })

\* C13: arraySize(cursor) returns the number of elements from the cursor to the
\* closing ] of the array (0 for an array without elements), and -1 when the
\* array is not terminated.
C13_ArraySizeCountsElements ==
    (lastSize.called /\ hasArray(json_src))
        => lastSize.ret = (IF json_src.ending = "closed"
                           THEN elementsFrom(json_src, lastSize.arg)
                           ELSE -1)

----------------------------------------------------------------------------
(*          Storage connection: where clauses, deleteRows and update        *)

\* the longest and/or chain of where nodes tried
MaxDepth == 2

\* values of the column c in the rows of the common table at the start
CommonKeys == { 1, 2 }

\* "condition" strings of a where node
Conditions == { "=", "in", "not in" }

\* elements of a "value" array: a number and a boolean
WhereItems == { [ kind |-> "int", n |-> 1 ], [ kind |-> "bool", n |-> 0 ] }

\* "value" members: an integer, the empty array and arrays of one element
WhereValues ==
    { [ kind |-> "int", n |-> 1, items |-> << >> ],
      [ kind |-> "arr", n |-> 0, items |-> << >> ] }
    \cup { [ kind |-> "arr", n |-> 0, items |-> << i >> ] : i \in WhereItems }

\* where nodes without an "and" or "or" member
WhereLeaves ==
    { [ cond |-> c, value |-> v, link |-> "none", sub |-> << >> ] :
          c \in Conditions, v \in WhereValues }

RECURSIVE WhereNodesTo(_)
\* where nodes with a chain of at most depth nodes
WhereNodesTo(depth) ==
    IF depth <= 1 THEN WhereLeaves
    ELSE WhereLeaves
         \cup { [ cond |-> l.cond, value |-> l.value, link |-> k, sub |-> << s >> ] :
                    l \in WhereLeaves, k \in { "and", "or" },
                    s \in WhereNodesTo(depth - 1) }

WhereNodes == WhereNodesTo(MaxDepth)

\* the condition argument of deleteRows: the empty string, a document without
\* a "where" member, or a document whose "where" member is a node
DeleteConditions ==
    { [ kind |-> "empty" ], [ kind |-> "nowhere" ] }
    \cup { [ kind |-> "where", where |-> w ] : w \in WhereNodes }

\* the payload of update: one update with or without a "values" member, and a
\* where node under "where", a single node under "condition", or neither
UpdatePayloads ==
    { [ values |-> v, member |-> "none" ] : v \in { "yes", "no" } }
    \cup { [ values |-> "yes", member |-> "where", where |-> w ] : w \in WhereNodes }
    \cup { [ values |-> "yes", member |-> "condition", where |-> w ] :
               w \in WhereLeaves }

\* a test that accepts the empty array
nonEmptyArray_anyArray(value) == value.kind = "arr"

\* whereClause["value"].IsArray() && whereClause["value"].Size()
nonEmptyArray(value) == value.kind = "arr" /\ Len(value.items) # 0

\* the message for an "in" or "not in" value that is no array or is empty
arrayMessage(cond) ==
    "The \"value\" of a \"" \o cond
        \o "\" condition must be an array and must not be empty."

\* the message for an array element that is no string or number
elementMessage(cond) ==
    "The \"value\" of a \"" \o cond
        \o "\" condition array element must be a string, integer or double."

\* the part of jsonWhereClause that writes one node's comparison
whereOperand(node) ==
    IF node.cond \in { "in", "not in" }
    THEN IF nonEmptyArray(node.value)
         THEN IF \E i \in 1 .. Len(node.value.items) :
                     node.value.items[i].kind # "int"
              THEN [ ok |-> FALSE, reason |-> elementMessage(node.cond) ]
              ELSE [ ok |-> TRUE,
                     clause |-> [ cond |-> node.cond, form |-> "list",
                                  operand |-> [ i \in 1 .. Len(node.value.items) |->
                                                  node.value.items[i].n ] ] ]
         ELSE [ ok |-> FALSE, reason |-> arrayMessage(node.cond) ]
    ELSE [ ok |-> TRUE,
           clause |-> [ cond |-> node.cond,
                        form |-> IF node.value.kind = "int" THEN "scalar"
                                 ELSE "missing",
                        operand |-> IF node.value.kind = "int"
                                    THEN << node.value.n >> ELSE << >> ] ]

RECURSIVE jsonWhereClause(_, _)
\* jsonWhereClause(whereClause, sql): the clauses appended to sql, each with the
\* connective written before it, or the error raised
jsonWhereClause(node, connective) ==
    LET own == whereOperand(node)
    IN  IF ~own.ok
        THEN [ ok |-> FALSE, clauses |-> << >>,
               error |-> raiseError("where clause", own.reason) ]
        ELSE LET first == << [ connective |-> connective,
                               cond       |-> own.clause.cond,
                               form       |-> own.clause.form,
                               operand    |-> own.clause.operand ] >>
             IN  IF node.link = "none"
                 THEN [ ok |-> TRUE, clauses |-> first, error |-> NoError ]
                 ELSE LET rest == jsonWhereClause(node.sub[1],
                                                  IF node.link = "and" THEN "AND"
                                                  ELSE "OR")
                      IN  IF ~rest.ok THEN rest
                          ELSE [ ok |-> TRUE, clauses |-> first \o rest.clauses,
                                 error |-> NoError ]

\* the server parses the statement only when every comparison has an operand
wellFormedSql(clauses) ==
    \A i \in 1 .. Len(clauses) : clauses[i].form # "missing"

\* one comparison on the column c of a row
clauseHolds(key, clause) ==
    CASE clause.cond = "="      -> key = clause.operand[1]
      [] clause.cond = "in"     ->
             \E i \in 1 .. Len(clause.operand) : key = clause.operand[i]
      [] clause.cond = "not in" ->
             \A i \in 1 .. Len(clause.operand) : key # clause.operand[i]

\* the WHERE condition as the server reads it: AND binds tighter than OR
whereHolds(key, clauses) ==
    \E i \in 1 .. Len(clauses) : \E j \in i .. Len(clauses) :
        /\ i = 1 \/ clauses[i].connective = "OR"
        /\ j = Len(clauses) \/ clauses[j + 1].connective = "OR"
        /\ \A k \in i + 1 .. j : clauses[k].connective = "AND"
        /\ \A k \in i .. j : clauseHolds(key, clauses[k])

\* the rows a statement's WHERE part selects; all rows without one
selected(table, clauses) ==
    IF clauses = << >> THEN table
    ELSE { r \in table : whereHolds(r.c, clauses) }

NoCall == [ done |-> "false" ]

\* what a call of deleteRows or update leaves for its caller
callResult(op, arg, db, ret, executed, raised) ==
    [ done     |-> "true",
      op       |-> op,
      arg      |-> arg,
      db       |-> db,
      ret      |-> ret,
      executed |-> executed,
      before   |-> commonTable,
      raised   |-> raised ]

CommonInit ==
    /\ commonTable = { [ c |-> k ] : k \in CommonKeys }
    /\ lastCall = NoCall

\* deleteRows(table, condition); db is what the server does with a statement
\* it can parse
DeleteRows(condition, db) ==
    /\ lastCall = NoCall
    /\ LET w == IF condition.kind = "where"
                THEN jsonWhereClause(condition.where, "")
                ELSE [ ok |-> TRUE, clauses |-> << >>, error |-> NoError ]
           rows == selected(commonTable, w.clauses)
       IN  IF condition.kind = "nowhere"
           THEN LET e == raiseError("delete", "JSON does not contain where clause")
                IN  /\ db = "ok"
                    /\ lastError' = e
                    /\ commonTable' = commonTable
                    /\ lastCall' = callResult("deleteRows", condition, db, -1,
                                              "false", << e >>)
           ELSE IF ~w.ok
           THEN /\ db = "ok"
                /\ lastError' = w.error
                /\ commonTable' = commonTable
                /\ lastCall' = callResult("deleteRows", condition, db, -1,
                                          "false", << w.error >>)
           ELSE IF db = "fail" \/ ~wellFormedSql(w.clauses)
           THEN LET e == raiseError("delete", "PQerrorMessage")
                IN  /\ ~wellFormedSql(w.clauses) => db = "ok"
                    /\ lastError' = e
                    /\ commonTable' = commonTable
                    /\ lastCall' = callResult("deleteRows", condition, db, -1,
                                              "true", << e >>)
           ELSE /\ lastError' = lastError
                /\ commonTable' = commonTable \ rows
                /\ \E ret \in countAfterClear(Cardinality(rows),
                                              Cardinality(CommonKeys)) :
                       lastCall' = callResult("deleteRows", condition, db, ret,
                                              "true", << >>)
    /\ UNCHANGED << readingsTable, nextRowId, lastPurge >>
    /\ UNCHANGED << connVars, notStore >>

\* the value an int function returns for "return false"
falseAsInt == 0

\* update(table, payload) for one update that sets a column other than c
Update(payload, db) ==
    /\ lastCall = NoCall
    /\ LET w == IF payload.member = "none"
                THEN [ ok |-> TRUE, clauses |-> << >>, error |-> NoError ]
                ELSE jsonWhereClause(payload.where, "")
           rows == selected(commonTable, w.clauses)
       IN  IF payload.values = "no"
           THEN LET e == raiseError("update",
                             "Missing values or expressions object in payload")
                IN  /\ db = "ok"
                    /\ lastError' = e
                    /\ commonTable' = commonTable
                    /\ lastCall' = callResult("update", payload, db, -1,
                                              "false", << e >>)
           ELSE IF ~w.ok
           THEN /\ db = "ok"
                /\ lastError' = w.error
                /\ commonTable' = commonTable
                /\ lastCall' = callResult("update", payload, db, falseAsInt,
                                          "false", << w.error >>)
           ELSE IF db = "fail" \/ ~wellFormedSql(w.clauses)
           THEN LET e == raiseError("update", "PQerrorMessage")
                IN  /\ ~wellFormedSql(w.clauses) => db = "ok"
                    /\ lastError' = e
                    /\ commonTable' = commonTable
                    /\ lastCall' = callResult("update", payload, db, -1,
                                              "true", << e >>)
           ELSE IF rows = { }
           THEN LET e == raiseError("update", "No rows where updated")
                IN  /\ lastError' = e
                    /\ commonTable' = commonTable
                    /\ lastCall' = callResult("update", payload, db, -1,
                                              "true", << e >>)
           ELSE /\ lastError' = lastError
                /\ commonTable' = commonTable
                /\ \E ret \in countAfterClear(Cardinality(rows),
                                              Cardinality(CommonKeys)) :
                       lastCall' = callResult("update", payload, db, ret,
                                              "true", << >>)
    /\ UNCHANGED << readingsTable, nextRowId, lastPurge >>
    /\ UNCHANGED << connVars, notStore >>

\* the caller has taken the result
CallReturned ==
    /\ lastCall # NoCall
    /\ lastCall' = NoCall
    /\ UNCHANGED << commonTable, purgeVars, connVars, notStore >>

\* one call at a time: a call is made when the last one has been taken
CommonNext ==
    \/ /\ lastCall = NoCall
       /\ \E condition \in DeleteConditions, db \in { "ok", "fail" } :
              DeleteRows(condition, db)
    \/ /\ lastCall = NoCall
       /\ \E payload \in UpdatePayloads, db \in { "ok", "fail" } :
              Update(payload, db)
    \/ CallReturned

\* an "in" or "not in" node whose value is no array or is the empty array
badArrayNode(node) ==
    /\ node.cond \in { "in", "not in" }
    /\ node.value.kind # "arr" \/ node.value.items = << >>

\* a node the where clause accepts: for "in" and "not in" a non-empty array
\* of numbers
acceptedNode(node) ==
    node.cond \in { "in", "not in" }
        => /\ node.value.kind = "arr" /\ node.value.items # << >>
           /\ \A i \in 1 .. Len(node.value.items) : node.value.items[i].kind = "int"

RECURSIVE firstRejected(_)
\* the first node of the chain that is not accepted, << >> when all are
firstRejected(node) ==
    IF ~acceptedNode(node) THEN << node >>
    ELSE IF node.link = "none" THEN << >>
    ELSE firstRejected(node.sub[1])

\* deleteRows was called with a where clause that fails at a bad array node
deleteAtBadArray ==
    /\ lastCall.done = "true"
    /\ lastCall.op = "deleteRows"
    /\ lastCall.arg.kind = "where"
    /\ firstRejected(lastCall.arg.where) # << >>
    /\ badArrayNode(firstRejected(lastCall.arg.where)[1])

\* C18 as stated: a where node with condition "in" or "not in" whose value is
\* no array or is empty makes deleteRows return -1, record the error
\* 'The "value" of a "in" condition must be an array and must not be empty.',
\* execute no statement and leave the table unchanged.
C18_Original ==
    deleteAtBadArray
        => /\ lastCall.ret = -1
           /\ lastCall.raised =
                  << raiseError("where clause",
                         "The \"value\" of a \"in\" condition must be an array and must not be empty.") >>
           /\ lastError = lastCall.raised[1]
           /\ lastCall.executed = "false"
           /\ commonTable = lastCall.before

\* C18: a where node with condition "in" or "not in" whose value is no array
\* or is empty makes deleteRows return -1, record the error that names the
\* node's own condition ('The "value" of a "in" condition ...' for "in",
\* 'The "value" of a "not in" condition ...' for "not in"), execute no
\* statement and leave the table unchanged.
C18_BadArrayFailsDelete ==
    deleteAtBadArray
        => /\ lastCall.ret = -1
           /\ lastCall.raised =
                  << [ operation |-> "where clause",
                       reason    |-> IF firstRejected(lastCall.arg.where)[1].cond = "in"
                                     THEN "The \"value\" of a \"in\" condition must be an array and must not be empty."
                                     ELSE "The \"value\" of a \"not in\" condition must be an array and must not be empty.",
                       retriable |-> FALSE ] >>
           /\ lastError = lastCall.raised[1]
           /\ lastCall.executed = "false"
           /\ commonTable = lastCall.before

\* deleteRows has returned for a clause whose second node is "not in" with an
\* empty array, after an earlier delete had removed a row
C18_Witness ==
    /\ deleteAtBadArray
    /\ lastCall.arg.where.link = "and"
    /\ lastCall.arg.where.sub[1].cond = "not in"
    /\ lastCall.arg.where.sub[1].value.kind = "arr"
    /\ lastCall.ret = -1
    /\ Cardinality(commonTable) = 1

\* C19: a call of deleteRows or update that records an error through
\* raiseError returns its error value -1, and a call that returns -1 has
\* recorded an error with retriable = false.
C19_ErrorIffErrorValue ==
    lastCall.done = "true"
        => /\ lastCall.raised # << >> => lastCall.ret = -1
           /\ lastCall.ret = -1
                  => /\ lastCall.raised # << >>
                     /\ lastCall.raised[1].retriable = FALSE
                     /\ lastError = lastCall.raised[1]

----------------------------------------------------------------------------
(*          Storage connection: reporting of failed connections             *)

\* the clock is followed up to this reading of time(0)
MaxClock == 700

\* seconds that pass between two steps
ClockSteps == { 150, 300, 301 }

\* CONNECT_ERROR_THRESHOLD: 5 minutes
CONNECT_ERROR_THRESHOLD == 5 * 60

\* a comparison that lets the threshold itself through
elapsedOver_atLeast(elapsed) == elapsed >= CONNECT_ERROR_THRESHOLD

\* time(0) - connectErrorTime > CONNECT_ERROR_THRESHOLD
elapsedOver(elapsed) == elapsed > CONNECT_ERROR_THRESHOLD

ConnectInit ==
    /\ connectErrorTime = 0
    /\ clock = 1
    /\ conn_pc = "idle"
    /\ logged = << >>
    /\ failedBefore = "false"
    /\ lastAttempt = "none"

\* time passes
Tick(d) ==
    /\ clock + d <= MaxClock
    /\ clock' = clock + d
    /\ UNCHANGED << connectErrorTime, conn_pc, logged, failedBefore, lastAttempt >>
    /\ UNCHANGED << commonVars, purgeVars, notStore >>

\* Connection::Connection() up to the test that decides about the log line
ConnectionBegin(status) ==
    /\ conn_pc = "idle"
    /\ IF status = "CONNECTION_OK"
       THEN /\ lastAttempt' = "connected"
            /\ conn_pc' = conn_pc
       ELSE IF connectErrorTime = 0 \/ elapsedOver(clock - connectErrorTime)
       THEN /\ lastAttempt' = "logged"
            /\ conn_pc' = "log"
       ELSE /\ lastAttempt' = "suppressed"
            /\ conn_pc' = conn_pc
    /\ failedBefore' = (IF status = "CONNECTION_OK" THEN failedBefore ELSE "true")
    /\ UNCHANGED << connectErrorTime, clock, logged >>
    /\ UNCHANGED << commonVars, purgeVars, notStore >>

\* Logger::getLogger()->error("Failed to connect to the database: ...")
ConnectionLog ==
    /\ conn_pc = "log"
    /\ logged' = Append(logged, clock)
    /\ conn_pc' = "stamp"
    /\ UNCHANGED << connectErrorTime, clock, failedBefore, lastAttempt >>
    /\ UNCHANGED << commonVars, purgeVars, notStore >>

\* connectErrorTime = time(0)
ConnectionStamp ==
    /\ conn_pc = "stamp"
    /\ connectErrorTime' = clock
    /\ conn_pc' = "idle"
    /\ UNCHANGED << clock, logged, failedBefore, lastAttempt >>
    /\ UNCHANGED << commonVars, purgeVars, notStore >>

ConnectNext ==
    \/ \E d \in ClockSteps : Tick(d)
    \/ \E status \in { "CONNECTION_OK", "CONNECTION_BAD" } : ConnectionBegin(status)
    \/ ConnectionLog
    \/ ConnectionStamp

\* C20: across failed connection attempts the failure is logged on the first
\* failure and afterwards only when more than 300 seconds have passed since
\* the last logged failure, so no two logged lines are 300 seconds or less
\* apart.
C20_FailureLogRateLimited ==
    /\ [](\A i \in 1 .. Len(logged) : \A j \in 1 .. Len(logged) :
              i < j => logged[j] - logged[i] > 300)
    /\ [][ ConnectionBegin("CONNECTION_BAD")
               => /\ failedBefore = "false" => conn_pc' = "log"
                  /\ (failedBefore = "true" /\ conn_pc' = "log")
                         => /\ logged # << >>
                            /\ clock - logged[Len(logged)] > 300 ]_vars

\* two failures were logged and a third, exactly 300 seconds after the second
\* line, was not
C20_Witness ==
    /\ Len(logged) = 2
    /\ lastAttempt = "suppressed"
    /\ conn_pc = "idle"
    /\ clock - logged[2] = 300

----------------------------------------------------------------------------
(*                 LazyJSON: popState and getRawObject                      *)

\* what a read through m_state finds once its frame has been deleted: the
\* frame as it was, or memory that has been reused
FreedOutcomes == { "stale", "overwritten" }

overwrittenState ==
    [ inObject |-> FALSE, inArray |-> FALSE, object |-> NULL, objectEnd |-> NULL ]

\* popState(): the top frame is deleted and popped; m_state is not assigned and
\* keeps pointing at the deleted frame
PopState(outcome) ==
    /\ m_stateStack # << >>
    /\ m_stateStack' = SubSeq(m_stateStack, 1, Len(m_stateStack) - 1)
    /\ m_state' = IF outcome = "stale" THEN m_state ELSE overwrittenState
    /\ lastAttribute' = NoAttribute
    /\ json_frame' = 0
    /\ json_walk' = << >>
    /\ lastCursor' = NoCursor
    /\ UNCHANGED << m_str, json_src, lastElement, lastSize >>
    /\ UNCHANGED notJSON

PopNext ==
    \/ \E name \in JsonNames : GetAttribute(name)
    \/ GetObject
    \/ \E p \in 1 .. Len(m_str) : GetArray(p)
    \/ \E outcome \in FreedOutcomes : PopState(outcome)

\* C28: after any sequence of getObject, getArray and popState calls the frame
\* getAttribute consults is the top of the frame stack, so after a popState a
\* lookup resolves in the enclosing frame and never in the deleted one.
C28_CurrentFrameIsTop ==
    m_stateStack # << >>
        => /\ m_state = m_stateStack[Len(m_stateStack)]
           /\ lastAttribute.called
                  => /\ lastCursor.object = m_stateStack[Len(m_stateStack)].object
                     /\ lastCursor.objectEnd
                            = m_stateStack[Len(m_stateStack)].objectEnd

Backslash == "\\"

\* the characters tried as the esc argument
EscChars == { Quote, "," }

NoRaw == [ done |-> FALSE ]

\* no getRawObject call has returned
RawOff == lastRaw = NoRaw

RECURSIVE rawCopy(_, _, _, _, _, _)
\* the copy loop of getRawObject(p, esc) from position p, out being the bytes
\* written so far
rawCopy(str, p, end, esc, escaped, out) ==
    IF p > Len(str) \/ p > end THEN out
    ELSE IF str[p] = Backslash /\ ~escaped
    THEN rawCopy(str, p + 1, end, esc, TRUE, out)
    ELSE rawCopy(str, p + 1, end, esc, FALSE,
                 (IF str[p] = esc THEN Append(out, Backslash) ELSE out)
                     \o << str[p] >>)

\* getRawObject(p, esc): the size asked of m_rawBuffer, the text copied and
\* the number of bytes written, the closing NUL included
getRawObject(str, p, esc) ==
    LET end  == objectEnd(str, p)
        text == rawCopy(str, p, end, esc, FALSE, << >>)
    IN  [ len |-> 3 + end - p, text |-> text, written |-> Len(text) + 1 ]

\* getRawObject(p, esc) with p the start of the document or the cursor the
\* last getAttribute returned, at an object or an array
GetRawObject(p, esc) ==
    /\ m_stateStack # << >>
    /\ \/ p = 1
       \/ lastAttribute.called /\ lastAttribute.ret # NULL /\ p = lastAttribute.ret
    /\ At(m_str, p) \in { "{", "[" }
    /\ objectEnd(m_str, p) # NULL
    /\ LET r == getRawObject(m_str, p, esc)
       IN  lastRaw' = [ done |-> TRUE, arg |-> p, esc |-> esc, len |-> r.len,
                        text |-> r.text, written |-> r.written ]
    /\ UNCHANGED << omfVars, purgeVars, ingestVars, formatVars, jsonVars, storeVars,
                    queryVars >>

RawNext ==
    \/ \E name \in JsonNames : GetAttribute(name)
    \/ \E p \in 1 .. Len(m_str), esc \in EscChars : GetRawObject(p, esc)

\* every occurrence of esc in the copy has a backslash before it
escapedEveryOccurrence ==
    lastRaw.done
        => \A i \in 1 .. Len(lastRaw.text) :
               lastRaw.text[i] = lastRaw.esc
                   => i > 1 /\ lastRaw.text[i - 1] = Backslash

\* C30: getRawObject(p, esc) never writes more bytes into the internal buffer
\* than the size it asked for in that call (3 + the byte length of the object),
\* however many times esc occurs, and puts a backslash before every occurrence
\* of esc.
C30_RawWithinReserved ==
    lastRaw.done
        => /\ lastRaw.written <= lastRaw.len
           /\ escapedEveryOccurrence

----------------------------------------------------------------------------
(*        Storage connection: compilation of a query payload to SQL        *)

MaxChain == 3      \* nodes on the and/or chain of a where tree

NoQuery == [ kind |-> "none" ]
NotCompiled == [ done |-> FALSE ]

\* where nodes jsonWhereClause accepts: = 1, in [1], not in [1]
QueryLeaves ==
    { [ cond |-> "=", value |-> [ kind |-> "int", n |-> 1, items |-> << >> ],
        link |-> "none", sub |-> << >> ] }
    \cup { [ cond |-> c,
             value |-> [ kind |-> "arr", n |-> 0,
                         items |-> << [ kind |-> "int", n |-> 1 ] >> ],
             link |-> "none", sub |-> << >> ] : c \in { "in", "not in" } }

RECURSIVE WhereTreesTo(_)
\* where trees with at most depth nodes, each with an "and" or an "or" member
\* or neither
WhereTreesTo(depth) ==
    IF depth <= 1 THEN QueryLeaves
    ELSE QueryLeaves
         \cup { [ cond |-> l.cond, value |-> l.value, link |-> k, sub |-> << s >> ] :
                    l \in QueryLeaves, k \in { "and", "or" },
                    s \in WhereTreesTo(depth - 1) }

\* a where tree and the value of column c in the row it is evaluated on
WhereQueries ==
    { [ kind |-> "where", where |-> w, key |-> k ] :
          w \in WhereTreesTo(MaxChain), k \in CommonKeys }

RECURSIVE treeHolds(_, _)
\* the where tree evaluated node by node: the node's comparison AND the "and"
\* subtree, or the node's comparison OR the "or" subtree
treeHolds(key, node) ==
    LET own == clauseHolds(key, whereOperand(node).clause)
    IN  CASE node.link = "none" -> own
          [] node.link = "and"  -> own /\ treeHolds(key, node.sub[1])
          [] node.link = "or"   -> own \/ treeHolds(key, node.sub[1])

\* jsonWhereClause(payload["where"], sql), and the WHERE text evaluated on a row
CompileWhere ==
    /\ query.kind = "where"
    /\ compiled = NotCompiled
    /\ LET r == jsonWhereClause(query.where, "")
       IN  compiled' = [ done  |-> TRUE,
                         ok    |-> r.ok,
                         sql   |-> r.clauses,
                         holds |-> r.ok /\ whereHolds(query.key, r.clauses) ]
    /\ UNCHANGED << query, notQuery >>

\* C22: the WHERE text jsonWhereClause writes has, on every row, the truth
\* value of the where tree evaluated recursively (node AND and-subtree, node
\* OR or-subtree).
C22_WherePreservesNesting ==
    (query.kind = "where" /\ compiled.done)
        => /\ compiled.ok
           /\ compiled.holds = treeHolds(query.key, query.where)

MaxList == 2       \* entries of a "return" list or an "aggregate" array

\* entries of a "return" list: a plain column name, and {json: {column,
\* properties}} with a string or an array of one or two keys as properties
ReturnEntries ==
    { [ form |-> "name", column |-> "x", isArray |-> "no", props |-> << >> ],
      [ form |-> "json", column |-> "data", isArray |-> "no", props |-> << "k" >> ],
      [ form |-> "json", column |-> "data", isArray |-> "yes", props |-> << "k" >> ],
      [ form |-> "json", column |-> "data", isArray |-> "yes",
        props |-> << "j", "k" >> ] }

\* the "where" member of the payloads tried: c = 1
ReturnWhere ==
    [ cond |-> "=", value |-> [ kind |-> "int", n |-> 1, items |-> << >> ],
      link |-> "none", sub |-> << >> ]

\* payloads with a "return" list, with and without a "where" member
RetrieveQueries ==
    { [ kind |-> "retrieve", ret |-> r, hasWhere |-> w ] :
          r \in SeqsUpTo(ReturnEntries, MaxList) \ { << >> },
          w \in { "yes", "no" } }

\* returnJson(json, sql, jsonConstraint): the expression written to sql and
\* the constraint buffer with "column->'k1'... ? 'last'" appended
returnJson(json, jsonConstraint) ==
    LET n == Len(json.props)
    IN  [ expr       |-> [ column |-> json.column, path |-> json.props ],
          constraint |-> Append(jsonConstraint,
                                [ column |-> json.column,
                                  path   |-> SubSeq(json.props, 1, n - 1),
                                  key    |-> json.props[n] ]) ]

RECURSIVE returnList(_, _, _)
\* the loop of retrieve over the "return" list, from entry i on
returnList(columns, i, acc) ==
    IF i > Len(columns) THEN acc
    ELSE LET e == columns[i]
         IN  IF e.form = "json"
             THEN LET r == returnJson(e, acc.constraint)
                  IN  returnList(columns, i + 1,
                                 [ select     |-> Append(acc.select, r.expr),
                                   constraint |-> r.constraint ])
             ELSE returnList(columns, i + 1,
                             [ select     |-> Append(acc.select,
                                                     [ column |-> e.column,
                                                       path   |-> << >> ]),
                               constraint |-> acc.constraint ])

\* retrieve(table, condition, resultSet) up to the statement it executes
CompileRetrieve ==
    /\ query.kind = "retrieve"
    /\ compiled = NotCompiled
    /\ LET cols == returnList(query.ret, 1, [ select |-> << >>, constraint |-> << >> ])
           w    == jsonWhereClause(ReturnWhere, "")
       IN  compiled' =
             [ done        |-> TRUE,
               ok          |-> TRUE,
               select      |-> cols.select,
               hasWhere    |-> query.hasWhere = "yes",
               sql         |-> IF query.hasWhere = "yes" THEN w.clauses ELSE << >>,
               constraints |-> IF query.hasWhere = "yes" THEN cols.constraint
                               ELSE << >> ]
    /\ UNCHANGED << query, notQuery >>

\* the WHERE clause of the statement has a constraint column ... ? 'key'
hasConstraint(column, key) ==
    \E j \in 1 .. Len(compiled.constraints) :
        /\ compiled.constraints[j].column = column
        /\ compiled.constraints[j].key = key

\* C23: for every {json: {column, properties}} entry of the "return" list the
\* SELECT statement carries column ? 'lastKey' in its WHERE clause, whether
\* or not the payload has a "where" member.
C23_ExistenceConstraintAlways ==
    (query.kind = "retrieve" /\ compiled.done)
        => \A i \in 1 .. Len(query.ret) :
               query.ret[i].form = "json"
                   => hasConstraint(query.ret[i].column,
                                    query.ret[i].props[Len(query.ret[i].props)])

\* the same for the payloads that have a "where" member
constraintWithWhere ==
    (query.kind = "retrieve" /\ compiled.done /\ query.hasWhere = "yes")
        => C23_ExistenceConstraintAlways

F_DATEH24_US == "YYYY-MM-DD HH24:MI:SS.US"

\* aggregates on a column, with and without an "alias" member
Aggregates ==
    [ operation : { "count", "min" }, column : { "*", "user_ts", "x" },
      hasAlias : { "yes", "no" }, alias : { "a" } ]

\* payloads with an "aggregate" member, an object or an array of objects,
\* handed to retrieve (isTableReading false) or retrieveReadings (true)
AggregateQueries ==
    { [ kind |-> "aggregate", form |-> "object", aggs |-> << a >>, readings |-> r ] :
          a \in Aggregates, r \in { "yes", "no" } }
    \cup { [ kind |-> "aggregate", form |-> "array", aggs |-> l, readings |-> r ] :
               l \in SeqsUpTo(Aggregates, MaxList) \ { << >> },
               r \in { "yes", "no" } }

\* ") AS \"<alias>\"", the alias made of operation and column when none is given
aggregateAlias(agg) ==
    ") AS \"" \o (IF agg.hasAlias = "yes" THEN agg.alias
                  ELSE agg.operation \o "_" \o agg.column) \o "\""

\* jsonAggregates for an "aggregate" member that is an object
aggregateObject(agg, isTableReading) ==
    agg.operation \o "("
        \o (IF agg.operation # "count"
            THEN IF isTableReading /\ agg.column = "user_ts"
                 THEN "to_char(user_ts, '" \o F_DATEH24_US \o "')"
                 ELSE "\"" \o agg.column \o "\""
            ELSE agg.column)
        \o aggregateAlias(agg)

RECURSIVE aggregateArray(_, _)
\* jsonAggregates for an "aggregate" member that is an array, from element i on
aggregateArray(aggs, i) ==
    IF i > Len(aggs) THEN ""
    ELSE (IF i > 1 THEN ", " ELSE "")
         \o aggs[i].operation \o "("
         \o (IF aggs[i].column = "user_ts"
             THEN "to_char(user_ts, '" \o F_DATEH24_US \o "')"
             ELSE "\"" \o aggs[i].column \o "\"")
         \o aggregateAlias(aggs[i])
         \o aggregateArray(aggs, i + 1)

\* jsonAggregates(payload, aggregates, sql, jsonConstraint, isTableReading)
jsonAggregates(form, aggs, isTableReading) ==
    IF form = "object" THEN aggregateObject(aggs[1], isTableReading)
    ELSE aggregateArray(aggs, 1)

\* retrieve or retrieveReadings up to the end of the SELECT list
CompileAggregate ==
    /\ query.kind = "aggregate"
    /\ compiled = NotCompiled
    /\ compiled' = [ done   |-> TRUE,
                     ok     |-> TRUE,
                     select |-> jsonAggregates(query.form, query.aggs,
                                               query.readings = "yes") ]
    /\ UNCHANGED << query, notQuery >>

\* the expression of one aggregate as the description of the two forms has it
expectedAggregate(agg, isTableReading) ==
    agg.operation \o "("
        \o (IF agg.operation = "count" THEN agg.column
            ELSE IF agg.column = "user_ts" /\ isTableReading
                 THEN "to_char(user_ts, '" \o F_DATEH24_US \o "')"
                 ELSE "\"" \o agg.column \o "\"")
        \o ") AS \""
        \o (IF agg.hasAlias = "yes" THEN agg.alias
            ELSE agg.operation \o "_" \o agg.column)
        \o "\""

\* C24: an aggregate given as a single object and the same aggregate given as
\* a one-element array compile to the same SELECT expression: count leaves the
\* column bare, user_ts is wrapped in to_char only for the readings table, and
\* a missing alias is made of operation and column.
C24_ObjectAndArrayAgree ==
    (query.kind = "aggregate" /\ compiled.done /\ Len(query.aggs) = 1)
        => /\ compiled.select
                  = jsonAggregates(IF query.form = "object" THEN "array" ELSE "object",
                                   query.aggs, query.readings = "yes")
           /\ compiled.select
                  = expectedAggregate(query.aggs[1], query.readings = "yes")

\* the same for the aggregates on which the two branches do agree: an
\* operation other than count on a column other than user_ts
agreeOnPlainColumns ==
    (query.kind = "aggregate" /\ compiled.done /\ Len(query.aggs) = 1
        /\ query.aggs[1].operation # "count" /\ query.aggs[1].column # "user_ts")
        => C24_ObjectAndArrayAgree

\* no payload is being compiled
QueryOff ==
    /\ query = NoQuery
    /\ compiled = NotCompiled

\* the payloads tried
QueryInputs == WhereQueries \cup RetrieveQueries \cup AggregateQueries

QueryInit ==
    /\ query \in QueryInputs
    /\ compiled = NotCompiled

QueryNext ==
    \/ CompileWhere
    \/ CompileRetrieve
    \/ CompileAggregate

----------------------------------------------------------------------------
(*                          Specifications                                  *)

\* no timestamp is being formatted and no appendReadings call has returned
FormatOff ==
    /\ fd_parts = NoParts
    /\ fd_input = << >>
    /\ fd_first = NoFormat
    /\ fd_second = NoFormat
    /\ lastAppend = NoAppend

\* a timestamp of the accepted form is about to be formatted
FormatInit ==
    /\ fd_parts \in FormatParts
    /\ fd_input = InputText(fd_parts)
    /\ fd_first = NoFormat
    /\ fd_second = NoFormat
    /\ lastAppend = NoAppend

InitAll ==
    /\ OMFInit /\ PurgeInit /\ IngestInit /\ FormatOff /\ JSONOff
    /\ CommonInit /\ ConnectInit /\ QueryOff /\ RawOff

SpecOMF    == InitAll /\ [][OMFNext]_vars
SpecPurge  == InitAll /\ [][PurgeNext]_vars
SpecIngest == InitAll /\ [][IngestNext]_vars

\* formatDate is given each of the timestamps tried
InitFormatDate ==
    /\ OMFInit /\ PurgeInit /\ IngestInit /\ FormatInit /\ JSONOff
    /\ CommonInit /\ ConnectInit /\ QueryOff /\ RawOff

\* a LazyJSON parser is constructed on each of the documents tried
InitJSON ==
    /\ OMFInit /\ PurgeInit /\ IngestInit /\ FormatOff /\ JSONInit
    /\ CommonInit /\ ConnectInit /\ QueryOff /\ RawOff

SpecFormatDate == InitFormatDate /\ [][FormatNext]_vars
SpecJSON   == InitJSON /\ [][JSONNext]_vars
SpecAppend == InitAll /\ [][AppendNext]_vars
SpecCommon == InitAll /\ [][CommonNext]_vars
SpecConnect == InitAll /\ [][ConnectNext]_vars

\* the readings table starts as the table of the worked example
InitExample ==
    /\ OMFInit /\ ExampleInit /\ IngestInit /\ FormatOff /\ JSONOff
    /\ CommonInit /\ ConnectInit /\ QueryOff /\ RawOff

SpecExample == InitExample /\ [][ExampleNext]_vars

\* a payload is handed to the connection
InitQuery ==
    /\ OMFInit /\ PurgeInit /\ IngestInit /\ FormatOff /\ JSONOff
    /\ CommonInit /\ ConnectInit /\ QueryInit /\ RawOff

SpecQuery == InitQuery /\ [][QueryNext]_vars

SpecPop == InitJSON /\ [][PopNext]_vars
SpecRaw == InitJSON /\ [][RawNext]_vars

=============================================================================
